---- MODULE Spec2Model ----
(***************************************************************************)
(* Model of the gateway's proxy engine (app/api/routes.py) and of the     *)
(* per-service circuit breaker (app/utils/circuit_breaker.py).            *)
(*                                                                         *)
(* The gateway runs on one asyncio event loop: a handler runs without     *)
(* interleaving from one await that really suspends to the next.  Each    *)
(* action below is one such uninterrupted stretch of a request handler.   *)
(***************************************************************************)
EXTENDS Integers, Sequences, FiniteSets, TLC

\* ------------------------------------------------------------------ bounds
MaxReqs == 2        \* request handlers that may be in progress at once
MaxTime == 31       \* the wall clock stops advancing here
MaxFailures == 4    \* failures are no longer injected at this failure_count
MaxFrames == 2      \* text frames each peer of a bridge sends at most

\* --------------------------------------------------------- program constants
failure_threshold == 3
timeout == 30
max_request_size == 10 * 1024 * 1024

CLOSED == "closed"
OPEN == "open"
HALF_OPEN == "half_open"
CircuitState == {CLOSED, OPEN, HALF_OPEN}

SUPPORTED_SERVICES ==
    {"user", "auth", "badge", "feed", "messaging", "notification", "project", "new"}

\* base URL of each supported service (the values of SUPPORTED_SERVICES)
service_url(s) ==
    CASE s = "user" -> "http://user-service:8001"
      [] s = "auth" -> "http://auth-service:8002"
      [] s = "badge" -> "http://badge-service:8003"
      [] s = "feed" -> "http://feed-service:8004"
      [] s = "messaging" -> "http://messaging-service:8005"
      [] s = "notification" -> "http://notification-service:8006"
      [] s = "project" -> "http://project-service:8007"
      [] s = "new" -> "http://new-service:8008"

\* ------------------------------------------------------------------- inputs
Reqs == 1..MaxReqs
\* services the modelled clients send requests to
TargetServices == {"user", "auth"}
\* the clock advances in steps that put the cool-down boundary within reach
TickSteps == {timeout - 1, timeout}
\* Content-Length header of the inbound request: absent (<<>>) or a value
ContentLengths == {<<>>, <<max_request_size>>, <<max_request_size + 1>>}
\* status codes a backend may answer with
BackendStatuses == {200, 500}
\* exception classes the outbound call may raise: httpx timeouts of the
\* connect phase and of a later phase, a failed connect, anything else
CallExceptions == {"ConnectTimeout", "ReadTimeout", "ConnectError", "Exception"}
\* isinstance(exc, cls) for the classes the except clauses name
IsInstance(exc, cls) ==
    \/ exc = cls
    \/ cls = "TimeoutException" /\ exc \in {"ConnectTimeout", "ReadTimeout"}
    \/ cls = "Exception"

\* Optional values: None is <<>>, a value v is <<v>>
None == <<>>
Some(v) == <<v>>
\* Python truthiness of an optional number: None and 0 are falsy
Truthy(o) == o /= None /\ o[1] /= 0
\* dict.get(key): the value, or None
Get(d, key) == IF key \in DOMAIN d THEN Some(d[key]) ELSE None

\* the key tokens must be signed with (settings.jwt_secret_key)
SECRET_KEY == "your_secret_key"
\* bearer tokens a client may present: whether the string is a compact JWT
\* at all, the key it was signed with, its exp claim and its sub claim
Tokens ==
    { [wellformed |-> TRUE, key |-> SECRET_KEY, exp |-> Some(2000000000),
       sub |-> Some("testuser123")],
      [wellformed |-> TRUE, key |-> SECRET_KEY, exp |-> Some(timeout),
       sub |-> Some("testuser123")],
      [wellformed |-> TRUE, key |-> SECRET_KEY, exp |-> Some(0),
       sub |-> Some("testuser123")],
      [wellformed |-> TRUE, key |-> "other_key", exp |-> Some(2000000000),
       sub |-> Some("testuser123")],
      [wellformed |-> TRUE, key |-> SECRET_KEY, exp |-> Some(2000000000),
       sub |-> None],
      [wellformed |-> FALSE, key |-> "", exp |-> None, sub |-> None] }
\* the Authorization header of a request: absent, or Bearer <token>
Authorizations == {None} \cup {Some(tok) : tok \in Tokens}
\* the routes of the router that lead to the modelled services, with the
\* service they proxy to and whether they depend on get_current_user
Routes ==
    { [handler |-> "auth_public_proxy", service |-> "auth", authed |-> FALSE],
      [handler |-> "auth_token_validation_proxy", service |-> "auth", authed |-> FALSE],
      [handler |-> "user_proxy", service |-> "user", authed |-> TRUE],
      [handler |-> "auth_proxy", service |-> "auth", authed |-> TRUE] }

\* HTTP requests as the router receives them. A path is the sequence of its
\* segments as the client sent them (percent-encoded); headers are the list of (name, value) lines, names in lower
\* case, where the value of authorization stands for 'Bearer <token>' and
\* is written as that token, and the value of content-length is the number
\* its digits denote.
Methods == {"GET", "POST", "PUT", "DELETE"}
Paths ==
    { <<"users", "profile">>, <<"users", "a", "b">>, <<"user", "profile">>,
      <<"auth", "signup">>, <<"auth", "login">>, <<"auth", "refresh">>,
      <<"auth", "me">>, <<"auth", "logout">>, <<"auth", "password">>,
      <<"api", "v1", "messaging", "conversations">>,
      <<"api", "v1", "messaging", "conversations", "c1">>,
      <<"api", "v1", "messaging", "conversations", "c1", "messages">>,
      <<"unsupported", "somepath">> }
       \cup { <<s, "test">> : s \in SUPPORTED_SERVICES }
Queries == {"", "page=2"}
Bodies == {"", "payload"}
ValidToken ==
    [wellformed |-> TRUE, key |-> SECRET_KEY, exp |-> Some(2000000000),
     sub |-> Some("testuser123")]
InvalidToken == [wellformed |-> FALSE, key |-> "", exp |-> None, sub |-> None]
HostHeader == << <<"host", "gateway:8000">> >>
AuthorizationHeaders ==
    { <<>>, << <<"authorization", ValidToken>> >>,
      << <<"authorization", InvalidToken>> >> }
ContentLengthHeaders ==
    { <<>>, << <<"content-length", 7>> >>,
      << <<"content-length", max_request_size>> >>,
      << <<"content-length", max_request_size + 1>> >> }
OtherHeaders ==
    { <<>>, << <<"x-custom-header", "custom-value">> >>,
      << <<"accept", "text/html">>, <<"accept", "application/json">> >> }
HeaderLists ==
    { HostHeader \o a \o c \o o :
        a \in AuthorizationHeaders, c \in ContentLengthHeaders, o \in OtherHeaders }
\* every method on every path with every kind of credential and nothing
\* else of note, and on two forwarded paths every method with a valid
\* credential and every query, Content-Length, further header and body
ForwardedPaths == { <<"users", "profile">>, <<"badge", "test">> }
InboundRequests ==
    [method : Methods, path : Paths, query : {""},
     headers : {HostHeader \o a : a \in AuthorizationHeaders}, body : {""}]
      \cup
    [method : Methods, path : ForwardedPaths, query : Queries,
     headers : {h \in HeaderLists :
                  \E i \in 1..Len(h) : h[i] = <<"authorization", ValidToken>>},
     body : Bodies]
\* requests with a valid credential on forwarded paths, among them a path
\* with a percent-encoded '?' and a query string that holds a '?'
UrlRequests ==
    [method : Methods,
     path : { <<"users", "profile">>, <<"users", "a%3Fb">>, <<"badge", "test">>,
              <<"auth", "login">> },
     query : {"", "page=2", "q=x?y"},
     headers : {HostHeader \o << <<"authorization", ValidToken>> >>},
     body : Bodies]
\* answers of a backend as they arrive at the gateway's HTTP client: the
\* status, the header lines, and the body as sent; "gzip(hello)" stands for
\* the bytes of the gzip-compressed form of "hello".
BackendBodies ==
    { [headers |-> <<>>, content |-> ""],
      [headers |-> <<>>, content |-> "hello"],
      [headers |-> << <<"content-encoding", "gzip">> >>,
       content |-> "gzip(hello)"] }
BackendHeaderLists ==
    { <<>>, << <<"x-custom-header", "custom-value">> >>,
      << <<"set-cookie", "a=1">>, <<"set-cookie", "b=2">> >> }
BackendResponses ==
    { [status_code |-> st,
       headers |-> << <<"content-type", "application/json">> >> \o b.headers \o h,
       content |-> b.content] :
         st \in {200, 201, 404, 500}, b \in BackendBodies, h \in BackendHeaderLists }

\* the request of a client that is known by its target service and its
\* Content-Length only
PlainRequest(s, content_length) ==
    [method |-> "GET", path |-> <<s, "x">>, query |-> "",
     headers |-> HostHeader \o
                   (IF content_length = None THEN <<>>
                    ELSE << <<"content-length", content_length[1]>> >>),
     body |-> ""]

\* the text of the `token` query parameter of a WebSocket upgrade: the names
\* of its '='-separated fields with a non-blank value (none in a compact
\* JWT, whose alphabet has no '='), and the JWT the text is, if it is one
EmptyText == [fields |-> {}, jwt |-> None]
QueryTexts ==
    {[fields |-> {}, jwt |-> Some(tok)] : tok \in Tokens}
       \cup {[fields |-> {"a"}, jwt |-> None]}
\* the `token` query parameter: absent, or its text
QueryTokens == {None} \cup {Some(text) : text \in QueryTexts}
\* the Authorization header of an upgrade: absent, Bearer <token>, or
\* another scheme
WsAuthorizations ==
    {None} \cup {Some([scheme |-> "Bearer", token |-> tok]) : tok \in Tokens}
           \cup {Some([scheme |-> "Basic",
                       token |-> [wellformed |-> FALSE, key |-> "", exp |-> None,
                                  sub |-> None]])}
\* how the messaging backend ends its side: close code 1000, or any other way
BackendCloseKinds == {"ok", "error"}
WS_1008_POLICY_VIOLATION == 1008

VARIABLES
    now,               \* time.time()
    circuit_breakers,  \* service name -> CircuitBreaker fields
    requests,          \* handler slot -> position of _proxy_request
    response,          \* the Response a handler has just returned, if any
    failures_since_success,
                       \* history: per service, the number of call_failed
                       \* since the last call_succeeded (or construction)
    ws                 \* one run of websocket_messaging_proxy: the handler's
                       \* position, its two sockets, its two forwarding
                       \* tasks and the frames on their way

vars == <<now, circuit_breakers, requests, response, failures_since_success, ws>>

\* ---------------------------------------------------------- CircuitBreaker
CircuitBreaker ==
    [state |-> CLOSED, failure_count |-> 0, last_failure_time |-> None]

\* is_open() with the cool-down compared by > in place of >=
is_open_gt(cb, t) ==
    IF cb.state = OPEN
    THEN LET cb2 == IF Truthy(cb.last_failure_time)
                       /\ t - cb.last_failure_time[1] > timeout
                    THEN [cb EXCEPT !.state = HALF_OPEN]
                    ELSE cb
         IN  [ret |-> cb2.state = OPEN, cb |-> cb2]
    ELSE [ret |-> FALSE, cb |-> cb]

\* is_open() that never lets the cool-down end
is_open_no_cooldown(cb, t) ==
    [ret |-> cb.state = OPEN, cb |-> cb]

\* is_open(): the value returned and the breaker afterwards
is_open(cb, t) ==
    IF cb.state = OPEN
    THEN LET cb2 == IF Truthy(cb.last_failure_time)
                       /\ t - cb.last_failure_time[1] >= timeout
                    THEN [cb EXCEPT !.state = HALF_OPEN]
                    ELSE cb
         IN  [ret |-> cb2.state = OPEN, cb |-> cb2]
    ELSE [ret |-> FALSE, cb |-> cb]

\* call_succeeded() that forgets to clear last_failure_time
call_succeeded_keeps_time(cb) ==
    [state |-> CLOSED, failure_count |-> 0,
     last_failure_time |-> cb.last_failure_time]

call_succeeded(cb) ==
    [state |-> CLOSED, failure_count |-> 0, last_failure_time |-> None]

\* call_failed() that stops counting once the threshold is reached
call_failed_capped(cb, t) ==
    LET n == IF cb.failure_count >= failure_threshold THEN cb.failure_count
             ELSE cb.failure_count + 1
    IN  [state |-> IF n >= failure_threshold THEN OPEN ELSE cb.state,
         failure_count |-> n,
         last_failure_time |-> Some(t)]

\* call_failed() with the threshold compared by > in place of >=
call_failed_gt(cb, t) ==
    LET n == cb.failure_count + 1
    IN  [state |-> IF n > failure_threshold THEN OPEN ELSE cb.state,
         failure_count |-> n,
         last_failure_time |-> Some(t)]

\* call_failed() that stamps last_failure_time on the first failure only
call_failed_first_time(cb, t) ==
    LET n == cb.failure_count + 1
    IN  [state |-> IF n >= failure_threshold THEN OPEN ELSE cb.state,
         failure_count |-> n,
         last_failure_time |-> IF cb.last_failure_time = None
                               THEN Some(t) ELSE cb.last_failure_time]

call_failed(cb, t) ==
    LET n == cb.failure_count + 1
    IN  [state |-> IF n >= failure_threshold THEN OPEN ELSE cb.state,
         failure_count |-> n,
         last_failure_time |-> Some(t)]

\* ---------------------------------------------------------- authentication
\* jwt.decode(token, SECRET_KEY, algorithms=["HS256"]) at time t: the payload,
\* or JWTError for a string that is no token, a signature made with another
\* key, or an exp claim in the past
jwt_decode(token, t) ==
    IF \/ ~token.wellformed
       \/ token.key /= SECRET_KEY
       \/ (token.exp /= None /\ token.exp[1] < t)
    THEN [error |-> "JWTError", payload |-> None]
    ELSE [error |-> "", payload |-> Some([sub |-> token.sub, exp |-> token.exp])]

\* the HTTPException of validate_jwt
CredentialsException ==
    [status_code |-> 401, content |-> "Could not validate credentials",
     raised |-> "HTTPException"]

\* validate_jwt that returns the payload's sub without testing it for None
validate_jwt_unchecked_sub(token, t) ==
    LET d == jwt_decode(token, t)
    IN  IF d.error = "JWTError"
        THEN [error |-> Some(CredentialsException), user |-> None]
        ELSE [error |-> None,
              user |-> IF d.payload[1].sub = None THEN Some("None")
                       ELSE d.payload[1].sub]

\* validate_jwt: the user, or the HTTPException raised
validate_jwt(token, t) ==
    LET d == jwt_decode(token, t)
    IN  IF d.error = "JWTError"
        THEN [error |-> Some(CredentialsException), user |-> None]
        ELSE IF d.payload[1].sub = None
        THEN [error |-> Some(CredentialsException), user |-> None]
        ELSE [error |-> None, user |-> d.payload[1].sub]

\* Depends(get_current_user) with security = HTTPBearer(): a request without
\* credentials is turned away by the security scheme itself
get_current_user(authorization, t) ==
    IF authorization = None
    THEN [error |-> Some([status_code |-> 403, content |-> "Not authenticated",
                          raised |-> "HTTPException"]),
          user |-> None]
    ELSE validate_jwt(authorization[1], t)

\* ------------------------------------------------- WebSocket authentication
\* urllib.parse.parse_qs: a dict from field name to the list of its values
parse_qs(text) == [name \in text.fields |-> <<"b">>]

WebSocketException(reason) ==
    [raised |-> "WebSocketException", code |-> WS_1008_POLICY_VIOLATION,
     reason |-> reason, user |-> None]

\* get_current_user_from_websocket that looks at the query parameter only
get_current_user_from_websocket_query_only(query, auth_header, t) ==
    LET query_params ==
            parse_qs(IF query = None THEN EmptyText ELSE query[1])
    IN  IF DOMAIN query_params /= {}
        THEN [raised |-> "KeyError", code |-> 0, reason |-> "0", user |-> None]
        ELSE WebSocketException("Token not provided")

\* get_current_user_from_websocket: the exception it raises, if any, or the
\* user it returns. parse_qs is applied to the VALUE of the parameter, and
\* its result, whose keys are all strings, is subscripted with 0.
get_current_user_from_websocket(query, auth_header, t) ==
    LET query_params ==
            parse_qs(IF query = None THEN EmptyText ELSE query[1])
    IN  IF DOMAIN query_params /= {}
        THEN [raised |-> "KeyError", code |-> 0, reason |-> "0", user |-> None]
        ELSE LET token ==
                    IF auth_header /= None /\ auth_header[1].scheme = "Bearer"
                    THEN Some(auth_header[1].token)
                    ELSE None
             IN  IF token = None
                 THEN WebSocketException("Token not provided")
                 ELSE LET d == jwt_decode(token[1], t)
                      IN  IF d.error = "JWTError" \/ d.payload[1].sub = None
                          THEN WebSocketException("Could not validate credentials")
                          ELSE [raised |-> "", code |-> 0, reason |-> "",
                                user |-> d.payload[1].sub]

validate_websocket_connection(query, auth_header, t) ==
    get_current_user_from_websocket(query, auth_header, t)

\* ------------------------------------------------------------ proxy engine
IdleRequest ==
    [pc |-> "idle", service |-> "", streaming |-> FALSE, called |-> FALSE,
     admitted |-> "", calls |-> 0, request |-> None, outbound |-> None]

\* dict(request.headers): one entry per header name, with the value of the
\* first line of that name
dict(headers) ==
    [name \in {headers[i][1] : i \in 1..Len(headers)} |->
        LET first == CHOOSE i \in 1..Len(headers) :
                        /\ headers[i][1] = name
                        /\ \A j \in 1..(i - 1) : headers[j][1] /= name
        IN  headers[first][2]]

\* d.pop(key, None)
pop(d, key) == [name \in DOMAIN d \ {key} |-> d[name]]

\* Texts are opaque values here, so the make-up of those input texts that
\* hold a '?' is tabulated: the pieces of a text are its stretches free of
\* '?' and its '?' characters, in order.
Pieces(text) ==
    CASE text = "" -> <<>>
      [] text = "a?b" -> <<"a", "?", "b">>
      [] text = "q=x?y" -> <<"q=x", "?", "y">>
      [] OTHER -> <<text>>

\* percent-decoding of a path segment, as the server does it for scope["path"]
unquote(segment) == IF segment = "a%3Fb" THEN "a?b" ELSE segment

\* scope["path"]: the decoded path, which the router matches and takes the
\* path parameters from
scope_path(request) == [i \in 1..Len(request.path) |-> unquote(request.path[i])]

\* the text of a path: each segment behind a '/'
RECURSIVE JoinPath(_)
JoinPath(path) ==
    IF path = <<>> THEN <<>>
    ELSE <<"/">> \o Pieces(Head(path)) \o JoinPath(Tail(path))

\* str(request.url): scheme and Host, the decoded path, and the raw query
\* string behind a '?' if it is not empty
str_url(request) ==
    <<"http://gateway:8000">> \o JoinPath(scope_path(request)) \o
       (IF request.query /= "" THEN <<"?">> \o Pieces(request.query) ELSE <<>>)

\* str(request.url).split("?", 1)[1] if "?" in str(request.url) else ""
query_params(request) ==
    LET u == str_url(request)
        marks == {i \in 1..Len(u) : u[i] = "?"}
    IN  IF marks = {} THEN <<>>
        ELSE SubSeq(u, (CHOOSE i \in marks : \A j \in marks : i <= j) + 1, Len(u))

\* the URL assembled from the service's base URL, the downstream path and
\* query_params, if that is not empty
downstream_url(request, service, path) ==
    LET q == query_params(request)
    IN  [base |-> service_url(service), path |-> path,
         query |-> IF q /= <<>> THEN Some(q) ELSE None]

\* a size test that also streams a body of exactly max_request_size bytes
ShouldStream_ge(content_length) ==
    Truthy(content_length) /\ content_length[1] >= max_request_size

\* the size test that selects the streaming branch
ShouldStream(content_length) ==
    Truthy(content_length) /\ content_length[1] > max_request_size

\* the except clauses of _proxy_request with those for TimeoutException and
\* ConnectError exchanged in their answers
ErrorResponse_swapped(exc) ==
    IF IsInstance(exc, "CircuitBreakerOpenException")
    THEN [status_code |-> 503, content |-> "Service Unavailable", raised |-> exc]
    ELSE IF IsInstance(exc, "TimeoutException")
    THEN [status_code |-> 502, content |-> "Bad Gateway", raised |-> exc]
    ELSE IF IsInstance(exc, "ConnectError")
    THEN [status_code |-> 504, content |-> "Gateway Timeout", raised |-> exc]
    ELSE [status_code |-> 500, content |-> "Internal Server Error", raised |-> exc]

\* the except clauses of _proxy_request, in order
ErrorResponse(exc) ==
    IF IsInstance(exc, "CircuitBreakerOpenException")
    THEN [status_code |-> 503, content |-> "Service Unavailable", raised |-> exc]
    ELSE IF IsInstance(exc, "TimeoutException")
    THEN [status_code |-> 504, content |-> "Gateway Timeout", raised |-> exc]
    ELSE IF IsInstance(exc, "ConnectError")
    THEN [status_code |-> 502, content |-> "Bad Gateway", raised |-> exc]
    ELSE [status_code |-> 500, content |-> "Internal Server Error", raised |-> exc]

\* the Response returned by the handler of request rq, with what the handler
\* did for it: the exception it caught (if any), whether the outbound call
\* was started and, if its outcome was recorded on the breaker, the breaker
\* state it was recorded in
Returned(rq, resp, recorded) ==
    Some([service |-> rq.service,
          status_code |-> resp.status_code, content |-> resp.content,
          raised |-> resp.raised,
          called |-> rq.called, admitted |-> rq.admitted,
          recorded |-> recorded, calls |-> rq.calls])

\* CircuitBreaker.call without its own admission check
EnterCall_unchecked(rq, cb, t) ==
    [cb |-> cb,
     rq |-> [rq EXCEPT !.pc = "inflight", !.called = TRUE, !.admitted = cb.state,
                       !.calls = @ + 1],
     out |-> None]

\* CircuitBreaker.call with the refusal raised inside the try block, so that
\* it is recorded as a failure
EnterCall_counting(rq, cb, t) ==
    LET chk == is_open(cb, t)
    IN  IF chk.ret
        THEN [cb |-> call_failed(chk.cb, t), rq |-> IdleRequest,
              out |-> Returned(rq, ErrorResponse("CircuitBreakerOpenException"), "")]
        ELSE [cb |-> chk.cb,
              rq |-> [rq EXCEPT !.pc = "inflight", !.called = TRUE,
                                !.admitted = chk.cb.state, !.calls = @ + 1],
              out |-> None]

\* CircuitBreaker.call up to the await of func: the admission check, then
\* either CircuitBreakerOpenException or the start of the outbound call
EnterCall(rq, cb, t) ==
    LET chk == is_open(cb, t)
    IN  IF chk.ret
        THEN [cb |-> chk.cb, rq |-> IdleRequest,
              out |-> Returned(rq, ErrorResponse("CircuitBreakerOpenException"), "")]
        ELSE [cb |-> chk.cb,
              rq |-> [rq EXCEPT !.pc = "inflight", !.called = TRUE,
                                !.admitted = chk.cb.state, !.calls = @ + 1],
              out |-> None]

\* _proxy_request from its entry to its first suspension; a new request is
\* given the lowest free handler slot. observed tells whether the request
\* and the arguments of the outbound call are kept in the handler's record,
\* where the claims on forwarding read them.
proxy_request(r, request, s, path, observed) ==
    /\ requests[r].pc = "idle"
    /\ \A q \in Reqs : q < r => requests[q].pc /= "idle"
    /\ response = None
    /\ IF s \notin SUPPORTED_SERVICES
       THEN /\ response' = Returned([IdleRequest EXCEPT !.service = s],
                  [status_code |-> 404, content |-> "Service not found",
                   raised |-> ""], "")
            /\ UNCHANGED <<circuit_breakers, requests>>
       ELSE
       LET content_length == Get(dict(request.headers), "content-length")
           rq == [IdleRequest EXCEPT
                    !.service = s,
                    !.streaming = ShouldStream(content_length),
                    !.request = IF observed THEN Some(request) ELSE None,
                    !.outbound =
                       IF observed
                       THEN Some([method |-> request.method,
                                  url |-> downstream_url(request, s, path),
                                  headers |-> pop(dict(request.headers), "host"),
                                  content |-> None])
                       ELSE None]
           chk == is_open(circuit_breakers[s], now)
       IN  IF chk.ret
           THEN /\ circuit_breakers' = [circuit_breakers EXCEPT ![s] = chk.cb]
                /\ requests' = [requests EXCEPT ![r] = IdleRequest]
                /\ response' = Returned(rq,
                      [status_code |-> 503, content |-> "Service Unavailable",
                       raised |-> ""], "")
           ELSE IF rq.streaming
           THEN LET e == EnterCall(
                           IF observed
                           THEN [rq EXCEPT !.outbound[1].content =
                                              Some("request.stream()")]
                           ELSE rq,
                           chk.cb, now)
                IN  /\ circuit_breakers' = [circuit_breakers EXCEPT ![s] = e.cb]
                    /\ requests' = [requests EXCEPT ![r] = e.rq]
                    /\ response' = e.out
           ELSE /\ circuit_breakers' = [circuit_breakers EXCEPT ![s] = chk.cb]
                /\ requests' = [requests EXCEPT ![r] = [rq EXCEPT !.pc = "body"]]
                /\ response' = None
    /\ UNCHANGED <<ws, now, failures_since_success>>

\* _proxy_request for a client known by its target service and its
\* Content-Length only
ProxyRequest(r, s, content_length) ==
    proxy_request(r, PlainRequest(s, content_length), s, <<s, "x">>, FALSE)

\* a request arrives on a route: the route's dependency is resolved, then the
\* handler calls _proxy_request
HandleRequest(r, route, authorization, content_length) ==
    IF route.authed
    THEN LET cu == get_current_user(authorization, now)
         IN  IF cu.error /= None
             THEN /\ requests[r].pc = "idle"
                  /\ \A q \in Reqs : q < r => requests[q].pc /= "idle"
                  /\ response = None
                  /\ response' = Returned([IdleRequest EXCEPT !.service = route.service],
                                          cu.error[1], "")
                  /\ UNCHANGED <<ws, now, circuit_breakers, requests,
                                 failures_since_success>>
             ELSE ProxyRequest(r, route.service, content_length)
    ELSE ProxyRequest(r, route.service, content_length)

\* await request.body() completes; the call enters the breaker
BodyRead(r) ==
    /\ requests[r].pc = "body"
    /\ response = None
    /\ LET s == requests[r].service
           e == EnterCall(
                   IF requests[r].request /= None
                   THEN [requests[r] EXCEPT !.outbound[1].content =
                                               Some(requests[r].request[1].body)]
                   ELSE requests[r],
                   circuit_breakers[s], now)
       IN  /\ circuit_breakers' = [circuit_breakers EXCEPT ![s] = e.cb]
           /\ requests' = [requests EXCEPT ![r] = e.rq]
           /\ response' = e.out
    /\ UNCHANGED <<ws, now, failures_since_success>>

\* await request.body() raises (the client went away mid-body): the
\* generic except clause answers
BodyFails(r) ==
    /\ requests[r].pc = "body"
    /\ response = None
    /\ requests' = [requests EXCEPT ![r] = IdleRequest]
    /\ response' = Returned(requests[r], ErrorResponse("ClientDisconnect"), "")
    /\ UNCHANGED <<ws, now, circuit_breakers, failures_since_success>>

\* the outbound call returns a response, and a 5xx status is turned into an
\* exception inside the guarded call (raise_for_status)
CallReturns_raise_for_status(r, status) ==
    /\ requests[r].pc = "inflight"
    /\ response = None
    /\ LET s == requests[r].service
       IN  IF status >= 500
           THEN /\ circuit_breakers[s].failure_count < MaxFailures
                /\ circuit_breakers' =
                     [circuit_breakers EXCEPT ![s] = call_failed(circuit_breakers[s], now)]
                /\ requests' = [requests EXCEPT ![r] = IdleRequest]
                /\ response' = Returned(requests[r], ErrorResponse("Exception"),
                     circuit_breakers[s].state)
                /\ failures_since_success' =
                     [failures_since_success EXCEPT ![s] = @ + 1]
           ELSE /\ circuit_breakers' =
                     [circuit_breakers EXCEPT ![s] = call_succeeded(circuit_breakers[s])]
                /\ requests' = [requests EXCEPT ![r] = IdleRequest]
                /\ response' = Returned(requests[r],
                     [status_code |-> status, content |-> "backend", raised |-> ""],
                     circuit_breakers[s].state)
                /\ failures_since_success' = [failures_since_success EXCEPT ![s] = 0]
    /\ UNCHANGED <<ws, now>>

\* an HTTP client that serves one call at a time: a response is delivered
\* only when no other call is pending
CallReturns_serial(r, status) ==
    /\ requests[r].pc = "inflight"
    /\ \A q \in Reqs : q /= r => requests[q].pc /= "inflight"
    /\ response = None
    /\ LET s == requests[r].service
       IN  /\ circuit_breakers' =
                [circuit_breakers EXCEPT ![s] = call_succeeded(circuit_breakers[s])]
           /\ requests' = [requests EXCEPT ![r] = IdleRequest]
           /\ response' = Returned(requests[r],
                [status_code |-> status, content |-> "backend", raised |-> ""],
                circuit_breakers[s].state)
           /\ failures_since_success' = [failures_since_success EXCEPT ![s] = 0]
    /\ UNCHANGED <<ws, now>>

\* the outbound call returns a response, whatever its status
CallReturns(r, status) ==
    /\ requests[r].pc = "inflight"
    /\ response = None
    /\ LET s == requests[r].service
       IN  /\ circuit_breakers' =
                [circuit_breakers EXCEPT ![s] = call_succeeded(circuit_breakers[s])]
           /\ requests' = [requests EXCEPT ![r] = IdleRequest]
           /\ response' = Returned(requests[r],
                [status_code |-> status, content |-> "backend", raised |-> ""],
                circuit_breakers[s].state)
           /\ failures_since_success' = [failures_since_success EXCEPT ![s] = 0]
    /\ UNCHANGED <<ws, now>>

\* response.content of the HTTP client: the body with its Content-Encoding
\* undone
response_content(backend_response) ==
    IF \E i \in 1..Len(backend_response.headers) :
          backend_response.headers[i] = <<"content-encoding", "gzip">>
    THEN IF backend_response.content = "gzip(hello)" THEN "hello" ELSE ""
    ELSE backend_response.content

\* the values of the lines named name, in order, with ", " between them
RECURSIVE JoinValues(_, _)
JoinValues(headers, name) ==
    IF headers = <<>> THEN <<>>
    ELSE LET rest == JoinValues(Tail(headers), name)
         IN  IF Head(headers)[1] /= name THEN rest
             ELSE IF rest = <<>> THEN <<Head(headers)[2]>>
             ELSE <<Head(headers)[2], ", ">> \o rest

\* dict(response.headers) of the HTTP client: one entry per header name,
\* whose value is the values of all lines of that name joined by ", "
response_headers_dict(backend_response) ==
    [name \in {backend_response.headers[i][1] :
                 i \in 1..Len(backend_response.headers)} |->
        JoinValues(backend_response.headers, name)]

\* the outbound call returns the backend's answer and the handler returns
\* Response(content=response.content, status_code=response.status_code,
\* headers=dict(response.headers))
CallAnswers(r, backend_response) ==
    /\ requests[r].pc = "inflight"
    /\ response = None
    /\ LET s == requests[r].service
       IN  /\ circuit_breakers' =
                [circuit_breakers EXCEPT ![s] = call_succeeded(circuit_breakers[s])]
           /\ requests' = [requests EXCEPT ![r] = IdleRequest]
           /\ response' =
                Some([service |-> s,
                      status_code |-> backend_response.status_code,
                      content |-> response_content(backend_response),
                      raised |-> "", called |-> requests[r].called,
                      admitted |-> requests[r].admitted,
                      recorded |-> circuit_breakers[s].state,
                      calls |-> requests[r].calls,
                      headers |-> response_headers_dict(backend_response),
                      backend |-> backend_response])
           /\ failures_since_success' = [failures_since_success EXCEPT ![s] = 0]
    /\ UNCHANGED <<ws, now>>

\* the outbound call raises and the failure is not reported to the breaker
CallRaises_unrecorded(r, exc) ==
    /\ requests[r].pc = "inflight"
    /\ response = None
    /\ requests' = [requests EXCEPT ![r] = IdleRequest]
    /\ response' = Returned(requests[r], ErrorResponse(exc),
          circuit_breakers[requests[r].service].state)
    /\ UNCHANGED <<ws, now, circuit_breakers, failures_since_success>>

\* the outbound call raises and the breaker hands the caller a generic error
\* in place of the one the call raised
CallRaises_wrapped(r, exc) ==
    /\ requests[r].pc = "inflight"
    /\ response = None
    /\ LET s == requests[r].service
       IN  /\ circuit_breakers[s].failure_count < MaxFailures
           /\ circuit_breakers' =
                [circuit_breakers EXCEPT ![s] = call_failed(circuit_breakers[s], now)]
           /\ requests' = [requests EXCEPT ![r] = IdleRequest]
           /\ response' = Returned(requests[r], ErrorResponse("Exception"),
                circuit_breakers[s].state)
           /\ failures_since_success' =
                [failures_since_success EXCEPT ![s] = @ + 1]
    /\ UNCHANGED <<ws, now>>

\* the outbound call raises and is attempted once more before the failure
\* is reported
CallRaises_retry(r, exc) ==
    /\ requests[r].pc = "inflight"
    /\ response = None
    /\ LET s == requests[r].service
       IN  IF requests[r].calls < 2
           THEN /\ requests' = [requests EXCEPT ![r].calls = @ + 1]
                /\ UNCHANGED <<circuit_breakers, response, failures_since_success>>
           ELSE /\ circuit_breakers[s].failure_count < MaxFailures
                /\ circuit_breakers' =
                     [circuit_breakers EXCEPT ![s] = call_failed(circuit_breakers[s], now)]
                /\ requests' = [requests EXCEPT ![r] = IdleRequest]
                /\ response' = Returned(requests[r], ErrorResponse(exc),
                     circuit_breakers[s].state)
                /\ failures_since_success' =
                     [failures_since_success EXCEPT ![s] = @ + 1]
    /\ UNCHANGED <<ws, now>>

\* the outbound call raises and the failure is recorded on one breaker that
\* all services share
CallRaises_shared(r, exc) ==
    /\ requests[r].pc = "inflight"
    /\ response = None
    /\ LET s == requests[r].service
       IN  /\ circuit_breakers[s].failure_count < MaxFailures
           /\ circuit_breakers' =
                [x \in SUPPORTED_SERVICES |-> call_failed(circuit_breakers[s], now)]
           /\ requests' = [requests EXCEPT ![r] = IdleRequest]
           /\ response' = Returned(requests[r], ErrorResponse(exc),
                circuit_breakers[s].state)
           /\ failures_since_success' =
                [failures_since_success EXCEPT ![s] = @ + 1]
    /\ UNCHANGED <<ws, now>>

\* the outbound call raises
CallRaises(r, exc) ==
    /\ requests[r].pc = "inflight"
    /\ response = None
    /\ LET s == requests[r].service
       IN  /\ circuit_breakers[s].failure_count < MaxFailures
           /\ circuit_breakers' =
                [circuit_breakers EXCEPT ![s] = call_failed(circuit_breakers[s], now)]
           /\ requests' = [requests EXCEPT ![r] = IdleRequest]
           /\ response' = Returned(requests[r], ErrorResponse(exc),
                circuit_breakers[s].state)
           /\ failures_since_success' =
                [failures_since_success EXCEPT ![s] = @ + 1]
    /\ UNCHANGED <<ws, now>>

\* the awaited outbound call is cancelled, with CancelledError caught like
\* an Exception: the breaker records a failure before the error goes on
CallCancelled_counted(r) ==
    /\ requests[r].pc = "inflight"
    /\ response = None
    /\ LET s == requests[r].service
       IN  /\ circuit_breakers[s].failure_count < MaxFailures
           /\ circuit_breakers' =
                [circuit_breakers EXCEPT ![s] = call_failed(circuit_breakers[s], now)]
           /\ failures_since_success' =
                [failures_since_success EXCEPT ![s] = @ + 1]
    /\ requests' = [requests EXCEPT ![r] = IdleRequest]
    /\ response' = Returned(requests[r],
          [status_code |-> 0, content |-> "", raised |-> "CancelledError"], "")
    /\ UNCHANGED <<ws, now>>

\* the task of the handler is cancelled while it awaits the outbound call:
\* CancelledError is no Exception, so it passes the except clause of
\* CircuitBreaker.call and those of _proxy_request, and the handler ends
\* with it, returning no Response (written here with status_code 0)
CallCancelled(r) ==
    /\ requests[r].pc = "inflight"
    /\ response = None
    /\ requests' = [requests EXCEPT ![r] = IdleRequest]
    /\ response' = Returned(requests[r],
          [status_code |-> 0, content |-> "", raised |-> "CancelledError"], "")
    /\ UNCHANGED <<ws, now, circuit_breakers, failures_since_success>>

\* the framework writes the returned Response to the client
SendResponse ==
    /\ response /= None
    /\ response' = None
    /\ UNCHANGED <<ws, now, circuit_breakers, requests, failures_since_success>>

Tick(d) ==
    /\ now + d <= MaxTime
    /\ now' = now + d
    /\ UNCHANGED <<ws, circuit_breakers, requests, response, failures_since_success>>

\* ----------------------------------------------------------- health endpoint
\* the status health_check reports, with those of OPEN and HALF_OPEN exchanged
service_status_swapped(circuit_breaker) ==
    IF circuit_breaker /= None
    THEN IF circuit_breaker[1].state = CLOSED THEN "healthy"
         ELSE IF circuit_breaker[1].state = OPEN THEN "recovering"
         ELSE IF circuit_breaker[1].state = HALF_OPEN THEN "unavailable"
         ELSE "unknown"
    ELSE "unknown"

\* the status health_check reports for what circuit_breakers.get returned
service_status(circuit_breaker) ==
    IF circuit_breaker /= None
    THEN IF circuit_breaker[1].state = CLOSED THEN "healthy"
         ELSE IF circuit_breaker[1].state = OPEN THEN "unavailable"
         ELSE IF circuit_breaker[1].state = HALF_OPEN THEN "recovering"
         ELSE "unknown"
    ELSE "unknown"

\* the body health_check returns for a registry of breakers
health_check(registry) ==
    [status |-> "ok", version |-> "1.0.0",
     services |-> [s \in SUPPORTED_SERVICES |->
                     [url |-> service_url(s),
                      status |-> service_status(Get(registry, s))]]]

HealthResponse(body) ==
    Some([service |-> "", status_code |-> 200, content |-> "health",
          raised |-> "", called |-> FALSE, admitted |-> "", recorded |-> "",
          calls |-> 0, json |-> body])

\* GET /health that asks each breaker is_open(), as admission does
HealthCheck_probing ==
    /\ response = None
    /\ response' = HealthResponse(health_check(circuit_breakers))
    /\ circuit_breakers' =
          [s \in DOMAIN circuit_breakers |-> is_open(circuit_breakers[s], now).cb]
    /\ UNCHANGED <<ws, now, requests, failures_since_success>>

\* GET /health: the handler has no suspension
HealthCheck ==
    /\ response = None
    /\ response' = HealthResponse(health_check(circuit_breakers))
    /\ UNCHANGED <<ws, now, circuit_breakers, requests, failures_since_success>>

\* --------------------------------------------------------------- route table
\* The HTTP routes of the router in the order of their registration. A
\* pattern is a sequence of segments in which "{}" stands for one path
\* parameter; rest tells that a {path:path} parameter follows the pattern.
\* rewrite names how the handler makes the downstream path: "full" is the
\* inbound path without its leading slash, "rest" is the {path:path}
\* parameter, "users_rest" is that parameter behind "users/".
RouteTable ==
    << [pattern |-> <<"health">>, rest |-> FALSE, methods |-> {"GET"},
        handler |-> "health_check", service |-> "", authed |-> FALSE,
        rewrite |-> ""],
       [pattern |-> <<"auth", "refresh">>, rest |-> FALSE, methods |-> {"POST"},
        handler |-> "auth_public_proxy", service |-> "auth", authed |-> FALSE,
        rewrite |-> "full"],
       [pattern |-> <<"auth", "login">>, rest |-> FALSE, methods |-> {"POST"},
        handler |-> "auth_public_proxy", service |-> "auth", authed |-> FALSE,
        rewrite |-> "full"],
       [pattern |-> <<"auth", "signup">>, rest |-> FALSE, methods |-> {"POST"},
        handler |-> "auth_public_proxy", service |-> "auth", authed |-> FALSE,
        rewrite |-> "full"],
       [pattern |-> <<"auth", "logout">>, rest |-> FALSE, methods |-> {"POST"},
        handler |-> "auth_token_validation_proxy", service |-> "auth",
        authed |-> FALSE, rewrite |-> "full"],
       [pattern |-> <<"auth", "me">>, rest |-> FALSE, methods |-> {"GET"},
        handler |-> "auth_token_validation_proxy", service |-> "auth",
        authed |-> FALSE, rewrite |-> "full"],
       [pattern |-> <<"users">>, rest |-> TRUE, methods |-> Methods,
        handler |-> "user_proxy", service |-> "user", authed |-> TRUE,
        rewrite |-> "users_rest"],
       [pattern |-> <<"auth">>, rest |-> TRUE, methods |-> {"PUT", "DELETE"},
        handler |-> "auth_proxy", service |-> "auth", authed |-> TRUE,
        rewrite |-> "rest"],
       [pattern |-> <<"badge">>, rest |-> TRUE, methods |-> Methods,
        handler |-> "badge_proxy", service |-> "badge", authed |-> TRUE,
        rewrite |-> "rest"],
       [pattern |-> <<"feed">>, rest |-> TRUE, methods |-> Methods,
        handler |-> "feed_proxy", service |-> "feed", authed |-> TRUE,
        rewrite |-> "rest"],
       [pattern |-> <<"api", "v1", "messaging", "conversations">>, rest |-> FALSE,
        methods |-> {"GET"}, handler |-> "get_conversations",
        service |-> "messaging", authed |-> TRUE, rewrite |-> "full"],
       [pattern |-> <<"api", "v1", "messaging", "conversations">>, rest |-> FALSE,
        methods |-> {"POST"}, handler |-> "create_conversation",
        service |-> "messaging", authed |-> TRUE, rewrite |-> "full"],
       [pattern |-> <<"api", "v1", "messaging", "conversations", "{}">>,
        rest |-> FALSE, methods |-> {"GET"}, handler |-> "get_conversation",
        service |-> "messaging", authed |-> TRUE, rewrite |-> "full"],
       [pattern |-> <<"api", "v1", "messaging", "conversations", "{}">>,
        rest |-> FALSE, methods |-> {"PUT"}, handler |-> "update_conversation",
        service |-> "messaging", authed |-> TRUE, rewrite |-> "full"],
       [pattern |-> <<"api", "v1", "messaging", "conversations", "{}">>,
        rest |-> FALSE, methods |-> {"DELETE"}, handler |-> "delete_conversation",
        service |-> "messaging", authed |-> TRUE, rewrite |-> "full"],
       [pattern |-> <<"api", "v1", "messaging", "conversations", "{}", "messages">>,
        rest |-> FALSE, methods |-> {"GET"}, handler |-> "get_messages",
        service |-> "messaging", authed |-> TRUE, rewrite |-> "full"],
       [pattern |-> <<"notification">>, rest |-> TRUE, methods |-> Methods,
        handler |-> "notification_proxy", service |-> "notification",
        authed |-> TRUE, rewrite |-> "rest"],
       [pattern |-> <<"project">>, rest |-> TRUE, methods |-> Methods,
        handler |-> "project_proxy", service |-> "project", authed |-> TRUE,
        rewrite |-> "rest"],
       [pattern |-> <<"new">>, rest |-> TRUE, methods |-> Methods,
        handler |-> "new_proxy", service |-> "new", authed |-> TRUE,
        rewrite |-> "rest"] >>

\* the path regex of a route matches the path
PathMatches(route, path) ==
    /\ IF route.rest THEN Len(path) > Len(route.pattern)
                     ELSE Len(path) = Len(route.pattern)
    /\ \A i \in 1..Len(route.pattern) :
          route.pattern[i] = "{}" \/ route.pattern[i] = path[i]

\* the router's choice: the first route whose path and method match; failing
\* that the first whose path matches, which answers 405; failing that 404
Match(table, method, path) ==
    LET full == {i \in 1..Len(table) :
                    PathMatches(table[i], path) /\ method \in table[i].methods}
        partial == {i \in 1..Len(table) : PathMatches(table[i], path)}
        first(S) == CHOOSE i \in S : \A j \in S : i <= j
    IN  IF full /= {} THEN [kind |-> "route", route |-> Some(table[first(full)])]
        ELSE IF partial /= {} THEN [kind |-> "405", route |-> None]
        ELSE [kind |-> "404", route |-> None]

\* user_proxy that forwards its path parameter as the other handlers do
downstream_path_plain(route, path) ==
    IF route.rewrite = "full" THEN path
    ELSE SubSeq(path, Len(route.pattern) + 1, Len(path))

\* the path argument the handler of the route gives to _proxy_request
downstream_path(route, path) ==
    LET rest == SubSeq(path, Len(route.pattern) + 1, Len(path))
    IN  IF route.rewrite = "full" THEN path
        ELSE IF route.rewrite = "users_rest" THEN <<"users">> \o rest
        ELSE rest

\* what the framework answers when no handler is called
FrameworkResponse(status_code, detail) ==
    Returned(IdleRequest,
             [status_code |-> status_code, content |-> detail,
              raised |-> "HTTPException"], "")

\* a gateway that answers unknown paths itself, with the body of
\* _proxy_request's own 404
NoRouteResponse_custom(kind) ==
    Returned(IdleRequest,
             [status_code |-> 404, content |-> "Service not found",
              raised |-> ""], "")

\* the framework's answer when no route matches the path (404) or only
\* routes of other methods do (405)
NoRouteResponse(kind) ==
    IF kind = "405" THEN FrameworkResponse(405, "Method Not Allowed")
    ELSE FrameworkResponse(404, "Not Found")

\* a router none of whose handlers depends on get_current_user
Dispatch_unchecked(r, request) ==
    /\ requests[r].pc = "idle"
    /\ \A q \in Reqs : q < r => requests[q].pc /= "idle"
    /\ response = None
    /\ LET m == Match(RouteTable, request.method, scope_path(request))
       IN  IF m.kind /= "route"
           THEN /\ response' = NoRouteResponse(m.kind)
                /\ UNCHANGED <<ws, now, circuit_breakers, requests,
                               failures_since_success>>
           ELSE LET route == m.route[1]
                IN  IF route.handler = "health_check"
                    THEN HealthCheck
                    ELSE proxy_request(r, request, route.service,
                                       downstream_path(route, scope_path(request)), TRUE)

\* a request reaches the router: the route is chosen, its dependency on
\* get_current_user is resolved, and its handler runs up to its first
\* suspension
Dispatch(r, request) ==
    /\ requests[r].pc = "idle"
    /\ \A q \in Reqs : q < r => requests[q].pc /= "idle"
    /\ response = None
    /\ LET m == Match(RouteTable, request.method, scope_path(request))
       IN  IF m.kind /= "route"
           THEN /\ response' = NoRouteResponse(m.kind)
                /\ UNCHANGED <<ws, now, circuit_breakers, requests,
                               failures_since_success>>
           ELSE LET route == m.route[1]
                    cu == get_current_user(
                             Get(dict(request.headers), "authorization"), now)
                IN  IF route.handler = "health_check"
                    THEN HealthCheck
                    ELSE IF route.authed /\ cu.error /= None
                    THEN /\ response' =
                               Returned([IdleRequest EXCEPT !.service = route.service],
                                        cu.error[1], "")
                         /\ UNCHANGED <<ws, now, circuit_breakers, requests,
                                        failures_since_success>>
                    ELSE proxy_request(r, request, route.service,
                                       downstream_path(route, scope_path(request)), TRUE)

\* -------------------------------------------------------- WebSocket bridge
\* before the upgrade request arrives. client: the client's socket, pending
\* until the handler answers the upgrade; service_ws: the socket to the
\* messaging backend; c2s, s2c: the tasks forward_client_to_service and
\* forward_service_to_client, with the frame each holds between its receive
\* and its send; the frames each peer has sent, those still on their way to
\* the gateway, and those the other peer has been handed.
IdleBridge ==
    [pc |-> "idle", path |-> "", query_given |-> FALSE,
     client |-> "pending", close_code |-> 0, close_reason |-> "",
     service_ws |-> "none",
     c2s |-> "none", c2s_message |-> None,
     s2c |-> "none", s2c_message |-> None,
     client_sent |-> <<>>, client_queue |-> <<>>, service_received |-> <<>>,
     service_sent |-> <<>>, service_queue |-> <<>>, client_received |-> <<>>]

Finished == {"done", "failed"}

HttpVars == <<now, circuit_breakers, requests, response, failures_since_success>>

\* the upgrade request reaches websocket_messaging_proxy: the connection is
\* validated, then closed with 1008 or accepted; an exception that is not a
\* WebSocketException leaves the handler
WsUpgrade(query, auth_header) ==
    /\ ws.pc = "idle"
    /\ LET v == validate_websocket_connection(query, auth_header, now)
       IN  ws' = IF v.raised = "WebSocketException"
                 THEN [ws EXCEPT !.pc = "returned", !.path = "rejected",
                                 !.query_given = query /= None,
                                 !.client = "closed",
                                 !.close_code = WS_1008_POLICY_VIOLATION,
                                 !.close_reason = "Authentication failed"]
                 ELSE IF v.raised /= ""
                 THEN [ws EXCEPT !.pc = "raised", !.path = v.raised,
                                 !.query_given = query /= None]
                 ELSE [ws EXCEPT !.pc = "connecting", !.client = "open",
                                 !.query_given = query /= None]
    /\ UNCHANGED HttpVars

\* websockets.connect returns; both forwarding tasks are created and the
\* handler waits for the first of them
WsConnect ==
    /\ ws.pc = "connecting"
    /\ ws' = [ws EXCEPT !.pc = "bridging", !.service_ws = "open",
                        !.c2s = "receiving", !.s2c = "receiving"]
    /\ UNCHANGED HttpVars

\* websockets.connect raises: the outer except clause closes the client
WsConnectFails ==
    /\ ws.pc = "connecting"
    /\ ws' = [ws EXCEPT !.pc = "returned", !.path = "error",
                        !.client = IF @ = "open" THEN "closed" ELSE @,
                        !.close_code = IF ws.client = "open" THEN 1000 ELSE @]
    /\ UNCHANGED HttpVars

\* the client sends its next text frame
ClientSends ==
    /\ ws.client = "open"
    /\ Len(ws.client_sent) < MaxFrames
    /\ LET frame == Len(ws.client_sent) + 1
       IN  ws' = [ws EXCEPT !.client_sent = Append(@, frame),
                            !.client_queue = Append(@, frame)]
    /\ UNCHANGED HttpVars

\* the client goes away
ClientDisconnects ==
    /\ ws.client = "open"
    /\ ws' = [ws EXCEPT !.client = "disconnected"]
    /\ UNCHANGED HttpVars

\* the messaging backend sends its next text frame
ServiceSends ==
    /\ ws.service_ws = "open"
    /\ Len(ws.service_sent) < MaxFrames
    /\ LET frame == Len(ws.service_sent) + 1
       IN  ws' = [ws EXCEPT !.service_sent = Append(@, frame),
                            !.service_queue = Append(@, frame)]
    /\ UNCHANGED HttpVars

\* the messaging backend ends the connection
ServiceCloses(kind) ==
    /\ ws.service_ws = "open"
    /\ ws' = [ws EXCEPT !.service_ws = IF kind = "ok" THEN "peer_closed_ok"
                                                     ELSE "peer_closed_error"]
    /\ UNCHANGED HttpVars

\* forward_client_to_service takes the newest frame waiting, not the oldest
C2SReceive_newest ==
    /\ ws.c2s = "receiving"
    /\ IF ws.client_queue /= <<>>
       THEN ws' = [ws EXCEPT !.c2s = "sending",
                             !.c2s_message = Some(ws.client_queue[Len(ws.client_queue)]),
                             !.client_queue = SubSeq(@, 1, Len(@) - 1)]
       ELSE /\ ws.client = "disconnected"
            /\ ws' = [ws EXCEPT !.c2s = "done"]
    /\ UNCHANGED HttpVars

\* forward_client_to_service: websocket.iter_text() yields the next frame,
\* or ends because the client has disconnected
C2SReceive ==
    /\ ws.c2s = "receiving"
    /\ IF ws.client_queue /= <<>>
       THEN ws' = [ws EXCEPT !.c2s = "sending",
                             !.c2s_message = Some(Head(ws.client_queue)),
                             !.client_queue = Tail(@)]
       ELSE /\ ws.client = "disconnected"
            /\ ws' = [ws EXCEPT !.c2s = "done"]
    /\ UNCHANGED HttpVars

\* forward_client_to_service: service_ws.send(message) returns, or raises
\* ConnectionClosed, which ends the task quietly
C2SSend ==
    /\ ws.c2s = "sending"
    /\ ws' = IF ws.service_ws = "open"
             THEN [ws EXCEPT !.c2s = "receiving", !.c2s_message = None,
                             !.service_received = Append(@, ws.c2s_message[1])]
             ELSE [ws EXCEPT !.c2s = "done", !.c2s_message = None]
    /\ UNCHANGED HttpVars

\* forward_service_to_client: iterating service_ws yields the next frame, or
\* ends (close code 1000), or raises ConnectionClosed (any other end), which
\* ends the task quietly
S2CReceive ==
    /\ ws.s2c = "receiving"
    /\ IF ws.service_queue /= <<>>
       THEN ws' = [ws EXCEPT !.s2c = "sending",
                             !.s2c_message = Some(Head(ws.service_queue)),
                             !.service_queue = Tail(@)]
       ELSE /\ ws.service_ws \in {"peer_closed_ok", "peer_closed_error"}
            /\ ws' = [ws EXCEPT !.s2c = "done"]
    /\ UNCHANGED HttpVars

\* forward_service_to_client: websocket.send_text(message) returns; towards
\* a client that has gone the server either drops the frame or raises, and
\* the task's generic except clause logs the error and ends the task
S2CSend(raises) ==
    /\ ws.s2c = "sending"
    /\ ws' = IF ws.client = "open"
             THEN [ws EXCEPT !.s2c = "receiving", !.s2c_message = None,
                             !.client_received = Append(@, ws.s2c_message[1])]
             ELSE IF raises
             THEN [ws EXCEPT !.s2c = "failed", !.s2c_message = None]
             ELSE [ws EXCEPT !.s2c = "receiving", !.s2c_message = None]
    /\ UNCHANGED HttpVars

\* asyncio.wait that returns when ALL tasks are complete
WaitReturns_all_completed ==
    /\ ws.pc = "bridging"
    /\ ws.c2s \in Finished /\ ws.s2c \in Finished
    /\ ws' = [ws EXCEPT !.pc = "closing"]
    /\ UNCHANGED HttpVars

\* asyncio.wait(return_when=FIRST_COMPLETED) returns and the handler asks
\* for the cancellation of every task still pending
WaitReturns ==
    /\ ws.pc = "bridging"
    /\ ws.c2s \in Finished \/ ws.s2c \in Finished
    /\ ws' = [ws EXCEPT !.pc = "closing",
                        !.c2s = IF @ \in Finished THEN @ ELSE "cancelling",
                        !.s2c = IF @ \in Finished THEN @ ELSE "cancelling"]
    /\ UNCHANGED HttpVars

\* the event loop throws CancelledError into a task whose cancellation was
\* asked for; neither except clause of the task catches it
C2SCancelled ==
    /\ ws.c2s = "cancelling"
    /\ ws' = [ws EXCEPT !.c2s = "cancelled", !.c2s_message = None]
    /\ UNCHANGED HttpVars

S2CCancelled ==
    /\ ws.s2c = "cancelling"
    /\ ws' = [ws EXCEPT !.s2c = "cancelled", !.s2c_message = None]
    /\ UNCHANGED HttpVars

\* await service_ws.close() returns and the handler returns
WsCloseService ==
    /\ ws.pc = "closing"
    /\ ws' = [ws EXCEPT !.pc = "returned", !.path = "normal",
                        !.service_ws = "closed"]
    /\ UNCHANGED HttpVars

\* ------------------------------------------------------------- specification
Init ==
    /\ now = 1
    /\ circuit_breakers = [s \in SUPPORTED_SERVICES |-> CircuitBreaker]
    /\ requests = [r \in Reqs |-> IdleRequest]
    /\ response = None
    /\ failures_since_success = [s \in SUPPORTED_SERVICES |-> 0]
    /\ ws = IdleBridge

Next ==
    \/ \E r \in Reqs, s \in TargetServices, cl \in ContentLengths :
          ProxyRequest(r, s, cl)
    \/ \E r \in Reqs : BodyRead(r)
    \/ \E r \in Reqs : BodyFails(r)
    \/ \E r \in Reqs, st \in BackendStatuses : CallReturns(r, st)
    \/ \E r \in Reqs, exc \in CallExceptions : CallRaises(r, exc)
    \/ SendResponse
    \/ \E d \in TickSteps : Tick(d)

\* requests that have passed their route's dependencies, handled concurrently
Spec == Init /\ [][Next]_vars

\* One service under sustained traffic: its backend may fail (and a client
\* may drop its body) only while a whole cool-down still fits before the
\* end of the modelled time, and answers every call afterwards.
LiveService == "user"

FailuresPossible == now + timeout <= MaxTime

LiveNext ==
    \/ \E cl \in ContentLengths : ProxyRequest(1, LiveService, cl)
    \/ BodyRead(1)
    \/ FailuresPossible /\ BodyFails(1)
    \/ \E st \in BackendStatuses : CallReturns(1, st)
    \/ \E exc \in CallExceptions : FailuresPossible /\ CallRaises(1, exc)
    \/ SendResponse
    \/ \E d \in {1, timeout} : Tick(d)

\* time keeps advancing, requests with a body that fits keep arriving, the
\* event loop resumes every handler and the backend answers every call
LiveSpec ==
    /\ Init
    /\ [][LiveNext]_vars
    /\ WF_vars(Tick(1))
    /\ SF_vars(ProxyRequest(1, LiveService, None))
    /\ WF_vars(BodyRead(1))
    /\ WF_vars(\E st \in BackendStatuses : CallReturns(1, st))
    /\ WF_vars(SendResponse)

\* one request at a time, from its arrival on a route
GateNext ==
    \/ \E route \in Routes, a \in Authorizations, cl \in ContentLengths :
          HandleRequest(1, route, a, cl)
    \/ BodyRead(1)
    \/ BodyFails(1)
    \/ \E st \in BackendStatuses : CallReturns(1, st)
    \/ \E exc \in CallExceptions : CallRaises(1, exc)
    \/ SendResponse
    \/ \E d \in TickSteps : Tick(d)

GateSpec == Init /\ [][GateNext]_vars

\* the health endpoint next to the traffic that moves the breakers
HealthNext ==
    \/ HealthCheck
    \/ \E s \in TargetServices, cl \in ContentLengths : ProxyRequest(1, s, cl)
    \/ BodyRead(1)
    \/ BodyFails(1)
    \/ \E st \in BackendStatuses : CallReturns(1, st)
    \/ \E exc \in CallExceptions : CallRaises(1, exc)
    \/ SendResponse
    \/ \E d \in TickSteps : Tick(d)

HealthSpec == Init /\ [][HealthNext]_vars

\* health_check as a function of the registry it reads: registries that
\* lack at most one service, whose breakers are as constructed, tripped at
\* time 1, or tripped at time 1 and since admitted
BreakerShapes ==
    { CircuitBreaker,
      [state |-> OPEN, failure_count |-> failure_threshold,
       last_failure_time |-> Some(1)],
      [state |-> HALF_OPEN, failure_count |-> failure_threshold,
       last_failure_time |-> Some(1)] }

Registries ==
    UNION { [D -> BreakerShapes] :
              D \in {SUPPORTED_SERVICES \ {"new"}, SUPPORTED_SERVICES \ {"user"}} }
      \cup { [s \in SUPPORTED_SERVICES |->
                 IF s = "user" THEN b1 ELSE IF s = "auth" THEN b2
                 ELSE CircuitBreaker] : b1 \in BreakerShapes, b2 \in BreakerShapes }

HealthFnInit ==
    /\ now = 1
    /\ circuit_breakers \in Registries
    /\ requests = [r \in Reqs |-> IdleRequest]
    /\ response = None
    /\ failures_since_success = [s \in SUPPORTED_SERVICES |-> 0]
    /\ ws = IdleBridge

HealthFnNext ==
    \/ HealthCheck
    \/ SendResponse

HealthFnSpec == HealthFnInit /\ [][HealthFnNext]_vars

\* requests of every shape on every path, one at a time; the user backend
\* may fail
RouteNext ==
    \/ \E request \in InboundRequests : Dispatch(1, request)
    \/ BodyRead(1)
    \/ BodyFails(1)
    \/ \E st \in BackendStatuses : CallReturns(1, st)
    \/ \E exc \in CallExceptions :
          requests[1].service = "user" /\ CallRaises(1, exc)
    \/ SendResponse

RouteSpec == Init /\ [][RouteNext]_vars

\* requests of every shape of URL, one at a time, to backends that answer
UrlNext ==
    \/ \E request \in UrlRequests : Dispatch(1, request)
    \/ BodyRead(1)
    \/ \E st \in BackendStatuses : CallReturns(1, st)
    \/ SendResponse

UrlSpec == Init /\ [][UrlNext]_vars

\* one request at a time to backends whose answers are looked at in full;
\* the outbound call may also raise
ReplyNext ==
    \/ \E s \in TargetServices, cl \in ContentLengths : ProxyRequest(1, s, cl)
    \/ BodyRead(1)
    \/ \E b \in BackendResponses : CallAnswers(1, b)
    \/ \E exc \in CallExceptions : CallRaises(1, exc)
    \/ SendResponse

ReplySpec == Init /\ [][ReplyNext]_vars

\* requests arriving on the routes of the auth service, public and
\* protected, with every kind of credential, handled concurrently
OrderAuthorizations == {None, Some(ValidToken), Some(InvalidToken)}
OrderRoutes == {route \in Routes : route.service = "auth"}

OrderNext ==
    \/ \E r \in Reqs, route \in OrderRoutes, a \in OrderAuthorizations,
          cl \in ContentLengths : HandleRequest(r, route, a, cl)
    \/ \E r \in Reqs : BodyRead(r)
    \/ \E r \in Reqs : BodyFails(r)
    \/ \E r \in Reqs, st \in BackendStatuses : CallReturns(r, st)
    \/ \E r \in Reqs, exc \in CallExceptions : CallRaises(r, exc)
    \/ SendResponse
    \/ \E d \in TickSteps : Tick(d)

OrderSpec == Init /\ [][OrderNext]_vars

\* A slow backend next to one that answers: at most one request to the slow
\* service is in progress, in handler slot 1, and its outbound call never
\* completes; requests to the other service keep arriving and its backend
\* answers every call.
SlowService == "user"
OtherService == "auth"

StarveNext ==
    \/ \E cl \in ContentLengths : ProxyRequest(1, SlowService, cl)
    \/ \E r \in Reqs, cl \in ContentLengths : ProxyRequest(r, OtherService, cl)
    \/ \E r \in Reqs : BodyRead(r)
    \/ \E r \in Reqs, st \in BackendStatuses :
          requests[r].service = OtherService /\ CallReturns(r, st)
    \/ SendResponse
    \/ \E d \in TickSteps : Tick(d)

\* the event loop resumes every handler whose body has arrived, the backend
\* of the other service answers every call, and every response is sent. A
\* handler waits only while the response of another handler is handed over,
\* which happens again and again, so each handler's steps are strongly fair.
StarveSpec ==
    /\ Init
    /\ [][StarveNext]_vars
    /\ \A r \in Reqs :
          /\ SF_vars(BodyRead(r))
          /\ SF_vars(\E st \in BackendStatuses :
                       requests[r].service = OtherService /\ CallReturns(r, st))
    /\ WF_vars(SendResponse)

\* concurrent requests to one service whose calls may be cancelled
CancelNext ==
    \/ \E r \in Reqs, cl \in ContentLengths : ProxyRequest(r, LiveService, cl)
    \/ \E r \in Reqs : BodyRead(r)
    \/ \E r \in Reqs, st \in BackendStatuses : CallReturns(r, st)
    \/ \E r \in Reqs, exc \in CallExceptions : CallRaises(r, exc)
    \/ \E r \in Reqs : CallCancelled(r)
    \/ SendResponse
    \/ \E d \in TickSteps : Tick(d)

CancelSpec == Init /\ [][CancelNext]_vars

\* one WebSocket upgrade and the bridge it starts
WsNext ==
    \/ \E query \in QueryTokens, auth_header \in WsAuthorizations :
          WsUpgrade(query, auth_header)
    \/ WsConnect
    \/ WsConnectFails
    \/ ClientSends
    \/ ClientDisconnects
    \/ ServiceSends
    \/ \E kind \in BackendCloseKinds : ServiceCloses(kind)
    \/ C2SReceive
    \/ C2SSend
    \/ S2CReceive
    \/ \E raises \in BOOLEAN : S2CSend(raises)
    \/ WaitReturns
    \/ C2SCancelled
    \/ S2CCancelled
    \/ WsCloseService
    \/ \E d \in TickSteps : ws.pc = "idle" /\ Tick(d)

WsSpec == Init /\ [][WsNext]_vars

\* the event loop runs every task that is ready: the handler and both
\* forwarders take their next step once it is possible
WsLiveSpec ==
    /\ Init
    /\ [][WsNext]_vars
    /\ WF_vars(WsConnect \/ WsConnectFails)
    /\ WF_vars(C2SReceive)
    /\ WF_vars(C2SSend)
    /\ WF_vars(S2CReceive)
    /\ WF_vars(\E raises \in BOOLEAN : S2CSend(raises))
    /\ WF_vars(WaitReturns)
    /\ WF_vars(C2SCancelled)
    /\ WF_vars(S2CCancelled)
    /\ WF_vars(WsCloseService)

TypeOK ==
    /\ now \in 1..MaxTime
    /\ \A s \in DOMAIN circuit_breakers :
          /\ circuit_breakers[s].state \in CircuitState
          /\ circuit_breakers[s].failure_count \in 0..MaxFailures
    /\ \A r \in Reqs : requests[r].pc \in {"idle", "body", "inflight"}

\* ------------------------------------------------------ observation helpers
\* the breaker of service s is OPEN and its cool-down has not elapsed
Cooling(s) ==
    /\ circuit_breakers[s].state = OPEN
    /\ circuit_breakers[s].last_failure_time /= None
    /\ now - circuit_breakers[s].last_failure_time[1] < timeout

\* the breaker of service s is OPEN and its cool-down has elapsed
CooledDown(s) ==
    /\ circuit_breakers[s].state = OPEN
    /\ circuit_breakers[s].last_failure_time /= None
    /\ now - circuit_breakers[s].last_failure_time[1] >= timeout

\* in the next state request r has just been answered 503 without a call
Refused(r, s) ==
    /\ response' /= None
    /\ response'[1].service = s
    /\ response'[1].status_code = 503
    /\ response'[1].content = "Service Unavailable"
    /\ response'[1].called = FALSE
    /\ requests'[r].pc = "idle"

\* in the next state request r is still being handled and nothing was answered
Proceeds(r, s) ==
    /\ response' = None
    /\ requests'[r].pc \in {"body", "inflight"}
    /\ requests'[r].service = s

\* ------------------------------------------------------------------- claims

\* C1: a request to service S whose admission is checked (on entry to the
\* proxy engine, or again when the call enters the breaker after the body was
\* read) while S's breaker is OPEN and less than timeout seconds have passed
\* since last_failure_time is answered 503 'Service Unavailable', and no step
\* taken in such a state starts an outbound call to S.
C1_OpenRefuses ==
    [][ /\ \A r \in Reqs, s \in TargetServices, cl \in ContentLengths :
              ProxyRequest(r, s, cl) /\ Cooling(s) => Refused(r, s)
        /\ \A r \in Reqs :
              BodyRead(r) /\ Cooling(requests[r].service)
                 => Refused(r, requests[r].service)
        /\ \A r \in Reqs :
              requests[r].pc /= "inflight" /\ requests'[r].pc = "inflight"
                 => ~Cooling(requests'[r].service) ]_vars

\* C1 witness: a request that passed the check on entry while the breaker
\* was CLOSED was refused by the breaker's own check after its body was
\* read, because concurrent failures had opened the breaker in between
C1_Witness ==
    /\ response /= None
    /\ response[1].status_code = 503
    /\ response[1].raised = "CircuitBreakerOpenException"
    /\ response[1].called = FALSE
    /\ Cooling(response[1].service)

\* C2: while fewer than failure_threshold failures have been recorded since
\* the last success (or construction) the breaker is CLOSED and failure_count
\* is that number; the recorded failure that makes the number reach
\* failure_threshold leaves the breaker OPEN.
C2_ConsecutiveFailures ==
    /\ [](\A s \in SUPPORTED_SERVICES :
            failures_since_success[s] < failure_threshold
               => /\ circuit_breakers[s].state = CLOSED
                  /\ circuit_breakers[s].failure_count = failures_since_success[s])
    /\ [][\A s \in SUPPORTED_SERVICES :
            /\ failures_since_success[s] = failure_threshold - 1
            /\ failures_since_success'[s] = failure_threshold
            => /\ circuit_breakers'[s].state = OPEN
               /\ circuit_breakers'[s].failure_count = failure_threshold]_vars

\* C2 witness: the failure_threshold-th consecutive failure has just been
\* answered and the breaker is OPEN
C2_Witness ==
    /\ response /= None
    /\ response[1].recorded = CLOSED
    /\ response[1].raised \in CallExceptions
    /\ failures_since_success[response[1].service] = failure_threshold
    /\ circuit_breakers[response[1].service].state = OPEN

\* C3: an admission check made while the breaker is OPEN moves it to
\* HALF_OPEN and admits when at least timeout seconds have passed since
\* last_failure_time, and leaves it OPEN and refuses when less has passed.
C3_AdmissionAfterTimeout ==
    [][ /\ \A r \in Reqs, s \in TargetServices, cl \in ContentLengths :
              ProxyRequest(r, s, cl) =>
                 /\ CooledDown(s) => /\ circuit_breakers'[s].state = HALF_OPEN
                                     /\ Proceeds(r, s)
                 /\ Cooling(s) => /\ circuit_breakers'[s].state = OPEN
                                  /\ Refused(r, s)
        /\ \A r \in Reqs :
              BodyRead(r) =>
                 LET s == requests[r].service
                 IN  /\ CooledDown(s) => /\ circuit_breakers'[s].state = HALF_OPEN
                                         /\ requests'[r].pc = "inflight"
                                         /\ response' = None
                     /\ Cooling(s) => /\ circuit_breakers'[s].state = OPEN
                                      /\ Refused(r, s) ]_vars

\* C3 witness: exactly timeout seconds after the last failure the breaker is
\* HALF_OPEN and the call that was checked is in flight
C3_Witness ==
    \E r \in Reqs :
       /\ requests[r].pc = "inflight"
       /\ requests[r].admitted = HALF_OPEN
       /\ LET cb == circuit_breakers[requests[r].service]
          IN  /\ cb.state = HALF_OPEN
              /\ cb.last_failure_time /= None
              /\ now - cb.last_failure_time[1] = timeout

\* C4: while the breaker is HALF_OPEN at most one probe is in flight: calls
\* admitted in HALF_OPEN never run concurrently on one service.
C4_SingleProbe ==
    \A s \in SUPPORTED_SERVICES :
       Cardinality({r \in Reqs : /\ requests[r].pc = "inflight"
                                 /\ requests[r].service = s
                                 /\ requests[r].admitted = HALF_OPEN}) <= 1

\* C5: when a call is recorded as successful, whatever the state of the
\* breaker at that moment, afterwards failure_count = 0, last_failure_time is
\* cleared and the state is CLOSED.
C5_SuccessResets ==
    [][\A r \in Reqs, st \in BackendStatuses :
          CallReturns(r, st) =>
             LET s == requests[r].service
             IN  /\ circuit_breakers'[s].failure_count = 0
                 /\ circuit_breakers'[s].last_failure_time = None
                 /\ circuit_breakers'[s].state = CLOSED]_vars

\* C5 witness: a success was recorded while the breaker was OPEN (the call
\* had been admitted before the breaker tripped) and the breaker is reset
C5_Witness ==
    /\ response /= None
    /\ response[1].content = "backend"
    /\ response[1].recorded = OPEN
    /\ circuit_breakers[response[1].service] =
          [state |-> CLOSED, failure_count |-> 0, last_failure_time |-> None]

\* C6: when a call fails while the breaker is HALF_OPEN, the breaker is OPEN
\* afterwards and last_failure_time is the time of that failure.
C6_HalfOpenFailureReopens ==
    [][\A r \in Reqs, exc \in CallExceptions :
          CallRaises(r, exc) /\ circuit_breakers[requests[r].service].state = HALF_OPEN
             => LET s == requests[r].service
                IN  /\ circuit_breakers'[s].state = OPEN
                    /\ circuit_breakers'[s].last_failure_time = Some(now)]_vars

\* C6 witness: a probe admitted after the cool-down has failed; the breaker
\* is OPEN again and its cool-down is counted from the failure just recorded
C6_Witness ==
    /\ response /= None
    /\ response[1].raised \in CallExceptions
    /\ response[1].admitted = HALF_OPEN
    /\ response[1].recorded = HALF_OPEN
    /\ circuit_breakers[response[1].service].state = OPEN
    /\ circuit_breakers[response[1].service].last_failure_time = Some(now)
    /\ now > timeout

\* C7: an admission check (on entry to the proxy engine, and the breaker's
\* own on entering the guarded call) changes neither failure_count nor
\* last_failure_time of any breaker, whether it admits, refuses or moves OPEN
\* to HALF_OPEN; a refused call is not recorded as a failure.
C7_AdmissionKeepsCounters ==
    [][ (\/ \E r \in Reqs, s \in TargetServices, cl \in ContentLengths :
               ProxyRequest(r, s, cl)
         \/ \E r \in Reqs : BodyRead(r))
        => /\ \A s \in SUPPORTED_SERVICES :
                /\ circuit_breakers'[s].failure_count = circuit_breakers[s].failure_count
                /\ circuit_breakers'[s].last_failure_time
                      = circuit_breakers[s].last_failure_time
           /\ failures_since_success' = failures_since_success ]_vars

\* C7 witness: a call was refused with CircuitBreakerOpenException and the
\* breaker still counts exactly the failures that tripped it
C7_Witness ==
    /\ response /= None
    /\ response[1].raised = "CircuitBreakerOpenException"
    /\ circuit_breakers[response[1].service].state = OPEN
    /\ circuit_breakers[response[1].service].failure_count = failure_threshold
    /\ failures_since_success[response[1].service] = failure_threshold

\* C8: a backend response is never recorded as a failure, whatever its
\* status: when the backend answers, 5xx included, the breaker is CLOSED with
\* failure_count = 0 afterwards and the client gets the backend's status code.
C8_BackendStatusNotFailure ==
    [][\A r \in Reqs, st \in BackendStatuses :
          CallReturns(r, st) =>
             LET s == requests[r].service
             IN  /\ circuit_breakers'[s].state = CLOSED
                 /\ circuit_breakers'[s].failure_count = 0
                 /\ failures_since_success'[s] = 0
                 /\ requests'[r].pc = "idle"
                 /\ response' /= None
                 /\ response'[1].service = s
                 /\ response'[1].status_code = st
                 /\ response'[1].content = "backend"]_vars

\* C8 witness: a backend 500 was passed on while failures had been counted
\* before it, and the breaker is CLOSED with failure_count = 0
C8_Witness ==
    /\ response /= None
    /\ response[1].status_code = 500
    /\ response[1].content = "backend"
    /\ response[1].recorded = CLOSED
    /\ circuit_breakers[response[1].service].state = CLOSED
    /\ circuit_breakers[response[1].service].failure_count = 0
    /\ \E r \in Reqs : /\ requests[r].pc = "inflight"
                       /\ requests[r].service = response[1].service

\* C9: a failed forwarded call is answered according to the kind of failure:
\* ConnectError 502 'Bad Gateway', a timeout of any phase 504 'Gateway
\* Timeout', any other exception 500 'Internal Server Error', and the
\* breaker's refusal 503 'Service Unavailable'; the handler always returns a
\* response for it.
C9_ErrorMapping ==
    [][ /\ \A r \in Reqs, exc \in CallExceptions :
              CallRaises(r, exc) =>
                 /\ response' /= None
                 /\ response'[1].service = requests[r].service
                 /\ requests'[r].pc = "idle"
                 /\ <<response'[1].status_code, response'[1].content>> =
                       CASE exc = "ConnectError" -> <<502, "Bad Gateway">>
                         [] exc \in {"ConnectTimeout", "ReadTimeout"} ->
                               <<504, "Gateway Timeout">>
                         [] OTHER -> <<500, "Internal Server Error">>
        /\ \A r \in Reqs :
              BodyRead(r) /\ requests'[r].pc /= "inflight" =>
                 /\ response' /= None
                 /\ response'[1].service = requests[r].service
                 /\ requests'[r].pc = "idle"
                 /\ <<response'[1].status_code, response'[1].content>> =
                       <<503, "Service Unavailable">> ]_vars

\* C9 witness: a timeout of the connect phase was answered 504
C9_Witness ==
    /\ response /= None
    /\ response[1].raised = "ConnectTimeout"
    /\ response[1].status_code = 504
    /\ response[1].content = "Gateway Timeout"
    /\ response[1].called = TRUE

\* C10 as stated: every request the gateway itself answers 502, 504 or 500
\* has increased the failure_count of its service's breaker by exactly one,
\* and every request answered 503 has left it unchanged.
C10_Original ==
    [][ response = None /\ response' /= None /\ response'[1].content /= "backend"
        => LET o == response'[1]
               before == circuit_breakers[o.service].failure_count
               after == circuit_breakers'[o.service].failure_count
           IN  /\ o.status_code \in {500, 502, 504} => after = before + 1
               /\ o.status_code = 503 => after = before ]_vars

\* C10 as amended: every request the gateway answers 502, 504 or 500 after
\* its outbound call was started has increased the failure_count of its
\* service's breaker by exactly one; every request answered without an
\* outbound call (503, and the 500 given when reading the request body
\* fails) has left it unchanged.
C10_Amended ==
    [][ /\ response = None /\ response' /= None
        /\ response'[1].content /= "backend"
        /\ response'[1].status_code \in {500, 502, 503, 504}
        => LET o == response'[1]
               before == circuit_breakers[o.service].failure_count
               after == circuit_breakers'[o.service].failure_count
           IN  /\ o.called => o.status_code \in {500, 502, 504} /\ after = before + 1
               /\ ~o.called => o.status_code \in {500, 503} /\ after = before ]_vars

\* C10 witness: a request was answered 500 because its body could not be
\* read, after failures of forwarded calls had been counted on the breaker
C10_Witness ==
    /\ response /= None
    /\ response[1].status_code = 500
    /\ response[1].called = FALSE
    /\ circuit_breakers[response[1].service].failure_count
          = failures_since_success[response[1].service]
    /\ failures_since_success[response[1].service] > 0

\* a token that verifies at time t and names a subject
ValidAt(tok, t) ==
    /\ tok.wellformed
    /\ tok.key = SECRET_KEY
    /\ (tok.exp = None \/ tok.exp[1] >= t)
    /\ tok.sub /= None

\* in the next state the request was turned away at the gate with the given
\* answer: nothing was handed to the proxy engine and no breaker was touched
Rejected(code, detail) ==
    /\ response' /= None
    /\ response'[1].status_code = code
    /\ response'[1].content = detail
    /\ response'[1].called = FALSE
    /\ response'[1].calls = 0
    /\ requests' = requests
    /\ circuit_breakers' = circuit_breakers

C12_NoRetry ==
    /\ \A r \in Reqs : requests[r].calls <= 1
    /\ response /= None => response[1].calls <= 1

\* C12 witness: an outbound call failed and was answered with an error after
\* that one call, and no handler is running
C12_Witness ==
    /\ response /= None
    /\ response[1].raised \in CallExceptions
    /\ response[1].calls = 1
    /\ \A r \in Reqs : requests[r].pc = "idle"

\* C14: CircuitBreaker.call hands its caller the outcome of the operation
\* unchanged, and the breaker has recorded it by then: when the call returns
\* a response, the caller has that response's status and the breaker is
\* CLOSED with no failures counted; when the call raises, the caller has
\* that very exception and the breaker has counted one more failure, stamped
\* with the current time.
C14_OutcomeUnchanged ==
    [][\A r \in Reqs :
        LET s == requests[r].service
        IN  /\ \A status \in BackendStatuses :
                 CallReturns(r, status) =>
                    /\ response' /= None
                    /\ response'[1].raised = ""
                    /\ response'[1].status_code = status
                    /\ response'[1].content = "backend"
                    /\ circuit_breakers'[s].state = CLOSED
                    /\ circuit_breakers'[s].failure_count = 0
                    /\ failures_since_success'[s] = 0
            /\ \A exc \in CallExceptions :
                 CallRaises(r, exc) =>
                    /\ response' /= None
                    /\ response'[1].raised = exc
                    /\ circuit_breakers'[s].failure_count =
                          circuit_breakers[s].failure_count + 1
                    /\ circuit_breakers'[s].last_failure_time = Some(now)
                    /\ failures_since_success'[s] = failures_since_success[s] + 1
    ]_vars

\* C14 witness: a read timeout raised by the outbound call has reached the
\* caller, and the breaker of that service carries the failure, stamped now
C14_Witness ==
    /\ response /= None
    /\ response[1].raised = "ReadTimeout"
    /\ response[1].called
    /\ circuit_breakers[response[1].service].failure_count >= 1
    /\ circuit_breakers[response[1].service].last_failure_time = Some(now)

\* C13: recovery eventually happens: whenever the breaker of a service is
\* OPEN while time keeps advancing, requests to the service keep arriving and
\* the backend answers them, the breaker is later CLOSED with
\* failure_count = 0; once the cool-down has elapsed the next request is
\* admitted, and a backend 200 closes the breaker.
C13_Recovery ==
    /\ (circuit_breakers[LiveService].state = OPEN)
          ~> (/\ circuit_breakers[LiveService].state = CLOSED
              /\ circuit_breakers[LiveService].failure_count = 0)
    /\ [][(CooledDown(LiveService) /\ ProxyRequest(1, LiveService, None))
             => (/\ response' = None
                 /\ requests'[1].pc \in {"body", "inflight"}
                 /\ circuit_breakers'[LiveService].state = HALF_OPEN)]_vars
    /\ [][CallReturns(1, 200)
             => (/\ circuit_breakers'[LiveService].state = CLOSED
                 /\ circuit_breakers'[LiveService].failure_count = 0)]_vars

\* C13 witness: the breaker had opened, the probe admitted after the
\* cool-down was answered 200 by the backend, and the breaker is CLOSED again
C13_Witness ==
    /\ response /= None
    /\ response[1].service = LiveService
    /\ response[1].admitted = HALF_OPEN
    /\ response[1].status_code = 200
    /\ response[1].raised = ""
    /\ now >= 1 + timeout
    /\ circuit_breakers[LiveService].state = CLOSED
    /\ circuit_breakers[LiveService].failure_count = 0

\* ------------------------------------------------- claims on the WebSocket

\* the `token` query parameter of the upgrade is a JWT that validates now
QueryTokenValid(query) ==
    /\ query /= None
    /\ query[1].jwt /= None
    /\ ValidAt(query[1].jwt[1], now)

\* the Authorization header of the upgrade is Bearer <a JWT that validates now>
HeaderTokenValid(auth_header) ==
    /\ auth_header /= None
    /\ auth_header[1].scheme = "Bearer"
    /\ ValidAt(auth_header[1].token, now)

\* in the next state the upgrade was closed with 1008 'Authentication failed'
\* without having been accepted, and nothing was opened to the backend
ClosedUnauthenticated ==
    /\ ws'.pc = "returned"
    /\ ws'.client = "closed"
    /\ ws'.close_code = 1008
    /\ ws'.close_reason = "Authentication failed"
    /\ ws'.service_ws = "none"

\* in the next state the upgrade was accepted and the handler is on its way
\* to the backend
Accepted ==
    /\ ws'.pc = "connecting"
    /\ ws'.client = "open"

IsPrefix(delivered, sent) ==
    /\ Len(delivered) <= Len(sent)
    /\ \A i \in 1..Len(delivered) : delivered[i] = sent[i]

Stopped == {"done", "failed", "cancelled"}

\* C15: an upgrade that carries no valid credential, neither in its `token`
\* query parameter nor in its Authorization header, is closed with code 1008
\* and reason 'Authentication failed', is not accepted, and no connection to
\* the messaging backend is opened for it.
C15_AuthFailureCloses1008 ==
    [][\A query \in QueryTokens, auth_header \in WsAuthorizations :
          (/\ ~QueryTokenValid(query)
           /\ ~HeaderTokenValid(auth_header)
           /\ WsUpgrade(query, auth_header))
             => ClosedUnauthenticated]_vars

\* C16: an upgrade with a valid token in its `token` query parameter and no
\* Authorization header is accepted and goes on to open the bridge.
C16_QueryTokenAuthenticates ==
    [][\A query \in QueryTokens :
          (QueryTokenValid(query) /\ WsUpgrade(query, None)) => Accepted]_vars

\* C17: an upgrade with no `token` query parameter is accepted when its
\* Authorization header is Bearer <valid token>, and is closed as
\* unauthenticated when it has no Authorization header either.
C17_HeaderFallback ==
    [][/\ \A auth_header \in WsAuthorizations :
            (HeaderTokenValid(auth_header) /\ WsUpgrade(None, auth_header))
               => Accepted
       /\ WsUpgrade(None, None) => ClosedUnauthenticated]_vars

\* C17 witness: a bridge is running for an upgrade that had no `token` query
\* parameter
C17_Witness ==
    /\ ws.pc = "bridging"
    /\ ~ws.query_given
    /\ ws.client = "open"
    /\ ws.service_ws = "open"

\* C18: when the handler of a bridge has returned after its wait for the
\* first forwarder, the other forwarder has been cancelled, the backend
\* socket is closed and the client socket is closed.
C18_TeardownClosesBoth ==
    (ws.pc = "returned" /\ ws.path = "normal")
       => /\ ws.c2s \in Finished \/ ws.s2c \in Finished
          /\ ws.c2s \in Finished \cup {"cancelling", "cancelled"}
          /\ ws.s2c \in Finished \cup {"cancelling", "cancelled"}
          /\ ws.service_ws = "closed"
          /\ ws.client /= "open"

\* C19: in each direction the frames handed to the receiving peer are always
\* a prefix of the frames the sending peer has sent, so none is reordered,
\* duplicated or skipped; neither direction waits for the other.
C19_OrderPreserved ==
    /\ IsPrefix(ws.service_received, ws.client_sent)
    /\ IsPrefix(ws.client_received, ws.service_sent)

\* C19 witness: every frame of the client has reached the backend in order
\* while the backend's frames, all sent, have none of them been delivered
C19_Witness ==
    /\ Len(ws.client_sent) = MaxFrames
    /\ ws.service_received = ws.client_sent
    /\ Len(ws.service_sent) = MaxFrames
    /\ ws.client_received = <<>>

\* C20: once the client has disconnected or the backend has ended the
\* connection (with close code 1000 or otherwise) during a bridge, both
\* forwarders stop and the handler returns; and a handler that had opened
\* the bridge returns through the teardown after its wait, never through its
\* except clause.
C20_BridgeTerminates ==
    /\ (/\ ws.pc = "bridging"
        /\ \/ ws.client = "disconnected"
           \/ ws.service_ws \in {"peer_closed_ok", "peer_closed_error"})
          ~> (/\ ws.pc = "returned"
              /\ ws.c2s \in Stopped
              /\ ws.s2c \in Stopped)
    /\ []((ws.pc = "returned" /\ ws.c2s /= "none") => ws.path = "normal")

\* C20 witness: the client disconnected, forward_client_to_service ended,
\* the other forwarder was cancelled and the handler returned after closing
\* the backend socket
C20_Witness ==
    /\ ws.pc = "returned"
    /\ ws.path = "normal"
    /\ ws.client = "disconnected"
    /\ ws.c2s = "done"
    /\ ws.s2c = "cancelled"
    /\ ws.service_ws = "closed"

\* ----------------------------------------------------- claims on /health

\* C21: the body of GET /health lists exactly the eight services user, auth,
\* badge, feed, messaging, notification, project and new, and gives each the
\* status of its breaker: 'healthy' for CLOSED, 'unavailable' for OPEN,
\* 'recovering' for HALF_OPEN, and 'unknown' when the registry has no
\* breaker for it.
C21_HealthMapping ==
    [][HealthCheck =>
         /\ response' /= None
         /\ response'[1].status_code = 200
         /\ response'[1].json.status = "ok"
         /\ DOMAIN response'[1].json.services =
               {"user", "auth", "badge", "feed", "messaging", "notification",
                "project", "new"}
         /\ \A s \in DOMAIN response'[1].json.services :
               response'[1].json.services[s].status =
                  IF s \notin DOMAIN circuit_breakers THEN "unknown"
                  ELSE IF circuit_breakers[s].state = "closed" THEN "healthy"
                  ELSE IF circuit_breakers[s].state = "open" THEN "unavailable"
                  ELSE "recovering"
    ]_vars

\* C21 witness: one health body reports all four statuses
C21_Witness ==
    /\ response /= None
    /\ response[1].content = "health"
    /\ {response[1].json.services[s].status : s \in SUPPORTED_SERVICES} =
          {"healthy", "unavailable", "recovering", "unknown"}

\* C22: GET /health changes no breaker and starts no outbound call: every
\* breaker keeps its state, failure_count and last_failure_time, also one
\* that is OPEN with its cool-down elapsed, and no handler moves.
C22_HealthIsPassive ==
    [][HealthCheck =>
         /\ \A s \in SUPPORTED_SERVICES :
               /\ circuit_breakers'[s].state = circuit_breakers[s].state
               /\ circuit_breakers'[s].failure_count =
                     circuit_breakers[s].failure_count
               /\ circuit_breakers'[s].last_failure_time =
                     circuit_breakers[s].last_failure_time
         /\ requests' = requests
         /\ response'[1].called = FALSE
         /\ response'[1].calls = 0
    ]_vars

\* C22 witness: /health has answered 'unavailable' for a breaker that is
\* still OPEN although its cool-down has elapsed
C22_Witness ==
    /\ response /= None
    /\ response[1].content = "health"
    /\ \E s \in SUPPORTED_SERVICES :
          /\ response[1].json.services[s].status = "unavailable"
          /\ circuit_breakers[s].state = OPEN
          /\ circuit_breakers[s].last_failure_time /= None
          /\ now - circuit_breakers[s].last_failure_time[1] >= timeout

\* ------------------------------------------- claims on routing and forwarding

\* the first authorization line of the request carries a token that
\* validates now
HasValidCredential(request) ==
    \E i \in 1..Len(request.headers) :
       /\ request.headers[i][1] = "authorization"
       /\ \A j \in 1..(i - 1) : request.headers[j][1] /= "authorization"
       /\ ValidAt(request.headers[i][2], now)

HasNoCredential(request) ==
    \A i \in 1..Len(request.headers) : request.headers[i][1] /= "authorization"

\* the query string of the request as the outbound URL carries it
QueryOf(request) ==
    IF request.query = "" THEN <<>> ELSE <<Pieces(request.query)>>

\* in the next state the handler of request r is on its way to the backend of
\* service s with an outbound request for the given path
ForwardedTo(r, request, base, path) ==
    /\ response' = None
    /\ requests'[r].pc \in {"body", "inflight"}
    /\ requests'[r].outbound /= <<>>
    /\ requests'[r].outbound[1].method = request.method
    /\ requests'[r].outbound[1].url =
          [base |-> base, path |-> path, query |-> QueryOf(request)]

\* C23: a request to /users/<rest> that carries a valid credential is
\* forwarded to <user_service_url>/users/<rest>, with its query string,
\* unless the breaker of the user service turns it away.
C23_UsersPath ==
    [][(requests[1].pc = "idle" /\ response = None) =>
       \A request \in InboundRequests :
          (/\ request.path[1] = "users"
           /\ HasValidCredential(request)
           /\ Dispatch(1, request))
             => IF Cooling("user")
                THEN Refused(1, "user")
                ELSE ForwardedTo(1, request, "http://user-service:8001",
                                 request.path)]_vars

\* C23 witness: the call for /users/a/b is under way to
\* http://user-service:8001/users/a/b
C23_Witness ==
    /\ requests[1].pc = "inflight"
    /\ requests[1].request /= <<>>
    /\ requests[1].request[1].path = <<"users", "a", "b">>
    /\ requests[1].outbound[1].url.base = "http://user-service:8001"
    /\ requests[1].outbound[1].url.path = <<"users", "a", "b">>

\* C24: GET /user/profile with a valid bearer token is forwarded with method
\* GET to <user_service_url>/profile.
C24_UserProfile ==
    [][(requests[1].pc = "idle" /\ response = None) =>
       \A request \in InboundRequests :
          (/\ request.method = "GET"
           /\ request.path = <<"user", "profile">>
           /\ HasValidCredential(request)
           /\ ~Cooling("user")
           /\ Dispatch(1, request))
             => ForwardedTo(1, request, "http://user-service:8001",
                            <<"profile">>)]_vars

\* C25: for each of the eight service names S, GET /S/test is handed to the
\* backend of S when it carries a valid bearer token, is answered 403 when
\* it carries no credential, and 401 when its token is invalid.
C25_EveryServicePrefix ==
    [][(requests[1].pc = "idle" /\ response = None) =>
       \A request \in InboundRequests :
          (/\ request.method = "GET"
           /\ Len(request.path) = 2
           /\ request.path[1] \in
                 {"user", "auth", "badge", "feed", "messaging", "notification",
                  "project", "new"}
           /\ request.path[2] = "test"
           /\ ~Cooling(request.path[1])
           /\ Dispatch(1, request))
             => IF HasValidCredential(request)
                THEN /\ response' = None
                     /\ requests'[1].pc \in {"body", "inflight"}
                     /\ requests'[1].service = request.path[1]
                ELSE /\ response' /= None
                     /\ response'[1].called = FALSE
                     /\ response'[1].status_code =
                           IF HasNoCredential(request) THEN 403 ELSE 401]_vars

\* the endpoints of the auth service that the gateway forwards unchecked
PublicAuthEndpoints ==
    { <<"POST", <<"auth", "signup">>>>, <<"POST", <<"auth", "login">>>>,
      <<"POST", <<"auth", "refresh">>>>, <<"GET", <<"auth", "me">>>>,
      <<"POST", <<"auth", "logout">>>> }

\* in the next state the request was answered for a credential error and
\* nothing else happened
Denied(request) ==
    /\ response' /= None
    /\ response'[1].status_code = IF HasNoCredential(request) THEN 403 ELSE 401
    /\ response'[1].called = FALSE
    /\ requests' = requests
    /\ circuit_breakers' = circuit_breakers

\* C26: POST /auth/signup, /auth/login, /auth/refresh, GET /auth/me and POST
\* /auth/logout go on to the auth service whatever the Authorization header
\* is (the breaker of the auth service permitting); PUT and DELETE on any
\* other /auth/ path go on to it only with a valid credential, and are
\* answered 403 or 401 without a call otherwise.
C26_AuthPolicy ==
    [][(requests[1].pc = "idle" /\ response = None) =>
       \A request \in InboundRequests :
          (/\ request.path[1] = "auth"
           /\ Len(request.path) = 2
           /\ Dispatch(1, request))
             => IF <<request.method, request.path>> \in PublicAuthEndpoints
                THEN IF Cooling("auth") THEN Refused(1, "auth")
                                        ELSE Proceeds(1, "auth")
                ELSE IF /\ request.method \in {"PUT", "DELETE"}
                        /\ \A e \in PublicAuthEndpoints : e[2] /= request.path
                THEN IF ~HasValidCredential(request) THEN Denied(request)
                     ELSE IF Cooling("auth") THEN Refused(1, "auth")
                     ELSE Proceeds(1, "auth")
                ELSE TRUE]_vars

\* C26 witness: the call for GET /auth/me, which came without an
\* Authorization header, is under way to the auth service
C26_Witness ==
    /\ requests[1].pc = "inflight"
    /\ requests[1].service = "auth"
    /\ requests[1].request /= <<>>
    /\ requests[1].request[1].method = "GET"
    /\ requests[1].request[1].path = <<"auth", "me">>
    /\ HasNoCredential(requests[1].request[1])

\* C27: POST /auth/login is forwarded to the auth service with method POST
\* and the URL <auth_service_url>/login.
C27_AuthLoginUrl ==
    [][(requests[1].pc = "idle" /\ response = None) =>
       \A request \in InboundRequests :
          (/\ request.method = "POST"
           /\ request.path = <<"auth", "login">>
           /\ ~Cooling("auth")
           /\ Dispatch(1, request))
             => ForwardedTo(1, request, "http://auth-service:8002",
                            <<"login">>)]_vars

\* in the next state the framework has answered 404 'Not Found' itself: no
\* handler ran, no call was made and no breaker was touched
FrameworkNotFound ==
    /\ response' /= None
    /\ response'[1].status_code = 404
    /\ response'[1].content = "Not Found"
    /\ response'[1].content /= "Service not found"
    /\ response'[1].raised = "HTTPException"
    /\ response'[1].called = FALSE
    /\ requests' = requests
    /\ circuit_breakers' = circuit_breakers

C29_PassThrough ==
    [][/\ (requests[1].pc = "idle" /\ response = None) =>
             \A request \in InboundRequests :
                (/\ Dispatch(1, request)
                 /\ requests'[1].pc \in {"body", "inflight"})
                   => LET out == requests'[1].outbound[1]
                      IN  /\ out.method = request.method
                          /\ "host" \notin DOMAIN out.headers
                          /\ \A i \in 1..Len(request.headers) :
                                request.headers[i][1] /= "host"
                                   => /\ request.headers[i][1] \in DOMAIN out.headers
                                      /\ out.headers[request.headers[i][1]] =
                                            request.headers[i][2]
       /\ (/\ requests[1].pc = "body"
           /\ requests[1].request /= <<>>
           /\ requests'[1].pc = "inflight")
             => requests'[1].outbound[1].content =
                   <<requests[1].request[1].body>>]_vars

\* the request announces a body of more than 10 MiB
AnnouncesLargeBody(request) ==
    \E i \in 1..Len(request.headers) :
       /\ request.headers[i][1] = "content-length"
       /\ \A j \in 1..(i - 1) : request.headers[j][1] /= "content-length"
       /\ request.headers[i][2] > 10485760

\* C30: a proxied request is forwarded as a stream exactly when it has a
\* Content-Length greater than max_request_size (10 MiB); with a
\* Content-Length equal to it or smaller, or with none, its body is read
\* whole and forwarded as bytes. Either way the call is started by the
\* breaker of the service, after its admission check, and no request is
\* taken on for a service whose breaker is cooling down.
C30_BodyTransport ==
    [][/\ (/\ requests[1].pc = "idle"
           /\ requests'[1].pc \in {"body", "inflight"}
           /\ requests'[1].request /= <<>>)
             => /\ ~Cooling(requests'[1].service)
                /\ IF AnnouncesLargeBody(requests'[1].request[1])
                   THEN /\ requests'[1].pc = "inflight"
                        /\ requests'[1].outbound[1].content =
                              <<"request.stream()">>
                        /\ requests'[1].called
                        /\ requests'[1].calls = 1
                        /\ requests'[1].admitted \in {CLOSED, HALF_OPEN}
                   ELSE /\ requests'[1].pc = "body"
                        /\ requests'[1].outbound[1].content = <<>>
                        /\ ~requests'[1].called
       /\ (/\ requests[1].pc = "body"
           /\ requests[1].request /= <<>>
           /\ requests'[1].pc = "inflight")
             => /\ ~AnnouncesLargeBody(requests[1].request[1])
                /\ requests'[1].outbound[1].content =
                      <<requests[1].request[1].body>>
                /\ requests'[1].called
                /\ requests'[1].calls = 1
                /\ requests'[1].admitted \in {CLOSED, HALF_OPEN}
                /\ ~Cooling(requests[1].service)]_vars

\* C30 witness: a request with a Content-Length of max_request_size + 1 is
\* being forwarded as a stream through the breaker
C30_Witness ==
    /\ requests[1].pc = "inflight"
    /\ requests[1].request /= <<>>
    /\ AnnouncesLargeBody(requests[1].request[1])
    /\ requests[1].outbound[1].content = <<"request.stream()">>
    /\ requests[1].called

\* ------------------------------------------------- claims on the outbound URL

\* the text of an outbound URL
UrlText(url) ==
    <<url.base>> \o JoinPath(url.path) \o
       (IF url.query /= <<>> THEN <<"?">> \o url.query[1] ELSE <<>>)

\* C31: the outbound URL of a forwarded request is the base URL of the
\* service, a '/', the downstream path and, exactly when the inbound URL has
\* a query string, one '?' followed by that query string as it came.
C31_UrlAssembly ==
    [][(/\ requests[1].pc = "idle"
        /\ requests'[1].pc \in {"body", "inflight"}
        /\ requests'[1].request /= <<>>)
          => LET request == requests'[1].request[1]
                 decoded == [i \in 1..Len(request.path) |->
                               IF request.path[i] = "a%3Fb" THEN "a?b"
                               ELSE request.path[i]]
                 base == CASE request.path[1] = "users" -> "http://user-service:8001"
                           [] request.path[1] = "auth" -> "http://auth-service:8002"
                           [] request.path[1] = "badge" -> "http://badge-service:8003"
                           [] OTHER -> ""
                 path == IF \/ request.path[1] = "badge"
                            \/ /\ request.path[1] = "auth"
                               /\ request.method \in {"PUT", "DELETE"}
                         THEN Tail(decoded)
                         ELSE decoded
             IN  request \in UrlRequests
                    => UrlText(requests'[1].outbound[1].url) =
                          <<base>> \o JoinPath(path) \o
                             (IF request.query = "" THEN <<>>
                              ELSE <<"?">> \o Pieces(request.query))]_vars

\* ----------------------------------------------- claims on the relayed answer

\* C32: when the backend answers, the response of the gateway has the status
\* code of the backend's answer, its body as the backend sent it, and every
\* header line of it with its value.
C32_AnswerRelayed ==
    [][(/\ requests[1].pc = "inflight"
        /\ response' /= None
        /\ "backend" \in DOMAIN response'[1])
          => LET answer == response'[1].backend
             IN  /\ response'[1].status_code = answer.status_code
                 /\ response'[1].content = answer.content
                 /\ \A i \in 1..Len(answer.headers) :
                       /\ answer.headers[i][1] \in DOMAIN response'[1].headers
                       /\ \E j \in 1..Len(response'[1].headers[answer.headers[i][1]]) :
                             response'[1].headers[answer.headers[i][1]][j] =
                                answer.headers[i][2]]_vars

\* --------------------------------------- claims on ordering and concurrency

\* C33: a request that arrives on a protected route without a valid
\* credential is never taken on, so its credential is judged before any
\* downstream call; and the step that starts the outbound call of a request
\* is the step of a successful admission check on the breaker of its
\* service: the breaker was not refusing when the step began, the call is
\* started in the state the check left the breaker in, and nothing but the
\* check's own OPEN to HALF_OPEN move has changed the breaker in that step.
C33_StepOrder ==
    [][\A r \in Reqs :
          /\ (requests[r].pc = "idle" /\ requests'[r].pc /= "idle")
                => \A route \in OrderRoutes, a \in OrderAuthorizations,
                      cl \in ContentLengths :
                      HandleRequest(r, route, a, cl)
                         => \/ ~route.authed
                            \/ a /= None /\ ValidAt(a[1], now)
          /\ (~requests[r].called /\ requests'[r].called)
                => LET s == requests'[r].service
                   IN  /\ ~Cooling(s)
                       /\ circuit_breakers'[s].state \in {CLOSED, HALF_OPEN}
                       /\ requests'[r].admitted = circuit_breakers'[s].state
                       /\ circuit_breakers' =
                             [circuit_breakers EXCEPT ![s].state =
                                 IF @ = OPEN THEN HALF_OPEN ELSE @]]_vars

\* C33 witness: while one call to a service is under way, a second request
\* to it, whose body was read after the breaker had opened and cooled down,
\* has started its call as the half-open probe
C33_Witness ==
    /\ requests[1].pc = "inflight"
    /\ requests[2].pc = "inflight"
    /\ requests[1].service = requests[2].service
    /\ requests[1].admitted = CLOSED
    /\ requests[2].admitted = HALF_OPEN

\* C34: under concurrent requests every step changes at most one breaker,
\* and changes it by exactly one whole method applied to the breaker as the
\* step found it: the admission check on an OPEN breaker whose cool-down has
\* elapsed (state HALF_OPEN, counters kept), call_succeeded, or call_failed.
\* A breaker becomes HALF_OPEN only in a step that found it OPEN and cooled
\* down, and every admission check that finds it so leaves it HALF_OPEN and
\* admits the request.
C34_AtomicMethods ==
    [][/\ \A s \in TargetServices :
            LET cb == circuit_breakers[s]
                after == circuit_breakers'[s]
            IN  /\ \/ after = cb
                   \/ /\ CooledDown(s)
                      /\ after = [cb EXCEPT !.state = HALF_OPEN]
                   \/ after = [state |-> CLOSED, failure_count |-> 0,
                               last_failure_time |-> None]
                   \/ after = [state |-> IF cb.failure_count + 1 >= 3
                                         THEN OPEN ELSE cb.state,
                               failure_count |-> cb.failure_count + 1,
                               last_failure_time |-> <<now>>]
                /\ (cb.state /= HALF_OPEN /\ after.state = HALF_OPEN)
                      => CooledDown(s)
                /\ (/\ CooledDown(s)
                    /\ \E r \in Reqs :
                          /\ requests'[r].service = s
                          /\ \/ /\ requests[r].pc = "idle"
                                /\ requests'[r].pc /= "idle"
                             \/ /\ requests[r].pc = "body"
                                /\ requests'[r].pc = "inflight")
                      => after = [cb EXCEPT !.state = HALF_OPEN]
                /\ (/\ CooledDown(s)
                    /\ response = None
                    /\ response' /= None
                    /\ response'[1].service = s)
                      => response'[1].status_code /= 503
       /\ \A s1 \in SUPPORTED_SERVICES :
             circuit_breakers'[s1] /= circuit_breakers[s1]
                => \A s2 \in SUPPORTED_SERVICES \ {s1} :
                      circuit_breakers'[s2] = circuit_breakers[s2]]_vars

\* C34 witness: a breaker was moved to HALF_OPEN by the admission check of
\* one request while another request to the same service had its call
\* under way
C34_Witness ==
    /\ circuit_breakers["user"].state = HALF_OPEN
    /\ requests[1].pc = "inflight" /\ requests[1].service = "user"
    /\ requests[1].admitted = CLOSED
    /\ requests[2].pc = "body" /\ requests[2].service = "user"

\* the outbound call of the request to the slow service is pending
SlowCallPending ==
    /\ requests[1].pc = "inflight"
    /\ requests[1].service = "user"

\* C35: while the outbound call to the slow service is pending, which it
\* stays for ever, every request to the other service that arrives is taken
\* on, and every request to it that is in progress gets its call started
\* and is answered with the response of its backend.
C35_NoStarvation ==
    /\ [][SlowCallPending => SlowCallPending']_vars
    /\ [][\A r \in Reqs, cl \in ContentLengths :
            (SlowCallPending /\ ProxyRequest(r, "auth", cl))
               => Proceeds(r, "auth")]_vars
    /\ \A r \in Reqs :
          (/\ SlowCallPending
           /\ requests[r].service = "auth"
           /\ requests[r].pc /= "idle")
             ~> (/\ SlowCallPending
                 /\ requests[r].pc = "idle"
                 /\ response /= None
                 /\ response[1].service = "auth"
                 /\ response[1].called
                 /\ response[1].content = "backend")

\* C35 witness: a request to the other service has been answered by its
\* backend while the call to the slow service is still pending
C35_Witness ==
    /\ SlowCallPending
    /\ response /= None
    /\ response[1].service = "auth"
    /\ response[1].content = "backend"
    /\ response[1].called

\* C36: the breaker of every service is, in every reachable state, either
\* CLOSED with fewer than failure_threshold failures counted, or OPEN or
\* HALF_OPEN with at least failure_threshold failures counted and a
\* last_failure_time from which its cool-down is measured.
C36_BreakerInvariant ==
    \A s \in SUPPORTED_SERVICES :
       LET cb == circuit_breakers[s]
       IN  /\ cb.state = CLOSED => cb.failure_count < 3
           /\ cb.state \in {OPEN, HALF_OPEN}
                 => /\ cb.failure_count >= 3
                    /\ cb.last_failure_time /= <<>>
                    /\ cb.last_failure_time[1] > 0

\* C36 witness: a breaker is OPEN again with more failures counted than the
\* threshold while a call to its service is still under way
C36_Witness ==
    /\ circuit_breakers["auth"].state = OPEN
    /\ circuit_breakers["auth"].failure_count > 3
    /\ \E r \in Reqs : requests[r].pc = "inflight" /\ requests[r].service = "auth"

\* C37: under concurrent handlers the failure_count of every breaker is, in
\* every reachable state, the number of calls recorded as failed on it since
\* the last call recorded as successful (or since construction); it is not
\* capped at failure_threshold.
C37_CountIsExact ==
    \A s \in SUPPORTED_SERVICES :
       circuit_breakers[s].failure_count = failures_since_success[s]

\* C37 witness: a half-open probe has just failed while another call of the
\* same service is under way, and the breaker counts one failure more than
\* the threshold
C37_Witness ==
    /\ response /= None
    /\ response[1].raised \in CallExceptions
    /\ response[1].admitted = HALF_OPEN
    /\ circuit_breakers[response[1].service].failure_count = failure_threshold + 1
    /\ failures_since_success[response[1].service] = failure_threshold + 1
    /\ \E r \in Reqs : /\ requests[r].pc = "inflight"
                       /\ requests[r].service = response[1].service

\* C38: a step changes the breaker of a service only if it is a step of a
\* request to that service, so the handling of a request to one service
\* leaves the state, failure_count and last_failure_time of every other
\* breaker as they were; and a request to a service is answered 503 only
\* when failure_threshold or more calls to that same service have failed
\* since its last success.
C38_BreakersIsolated ==
    [][\A s \in SUPPORTED_SERVICES :
          /\ circuit_breakers'[s] /= circuit_breakers[s]
                => \E r \in Reqs :
                      /\ requests'[r] /= requests[r]
                      /\ requests[r].service = s \/ requests'[r].service = s
                      /\ \A q \in Reqs \ {r} : requests'[q] = requests[q]
          /\ (/\ response = None
              /\ response' /= None
              /\ response'[1].service = s
              /\ response'[1].status_code = 503
              /\ response'[1].content = "Service Unavailable")
                => /\ failures_since_success[s] >= 3
                   /\ circuit_breakers[s].state = OPEN]_vars

\* C38 witness: a request to one service is answered 503 while the breaker
\* of the other service is untouched and a call to that service is under way
C38_Witness ==
    /\ response /= None
    /\ response[1].service = "user"
    /\ response[1].status_code = 503
    /\ circuit_breakers["auth"] =
          [state |-> CLOSED, failure_count |-> 0, last_failure_time |-> <<>>]
    /\ \E r \in Reqs : requests[r].pc = "inflight" /\ requests[r].service = "auth"

\* C39: the step in which the outbound call of a request is cancelled
\* records neither a success nor a failure: the state, failure_count and
\* last_failure_time of every breaker are after it what they were before it,
\* and the request's own admission had not touched the counters either; a
\* cancelled probe leaves its breaker HALF_OPEN.
C39_CancelRecordsNothing ==
    [][\A r \in Reqs :
          (/\ requests[r].pc = "inflight"
           /\ response = <<>>
           /\ response' /= <<>>
           /\ response'[1].raised = "CancelledError"
           /\ requests'[r].pc = "idle")
             => /\ circuit_breakers' = circuit_breakers
                /\ failures_since_success' = failures_since_success
                /\ response'[1].recorded = ""
                /\ (/\ requests[r].admitted = HALF_OPEN
                    /\ circuit_breakers[requests[r].service].state = HALF_OPEN)
                      => circuit_breakers'[requests[r].service].state = HALF_OPEN]_vars

\* C39 witness: the call of a half-open probe was cancelled and the breaker
\* is HALF_OPEN with its failures still counted
C39_Witness ==
    /\ response /= <<>>
    /\ response[1].raised = "CancelledError"
    /\ response[1].admitted = HALF_OPEN
    /\ circuit_breakers["user"].state = HALF_OPEN
    /\ circuit_breakers["user"].failure_count = failure_threshold
    /\ \A r \in Reqs : requests[r].pc = "idle"

\* C40: when the backend answers the call of a probe admitted in HALF_OPEN,
\* with a 5xx status just as with a 2xx status, the breaker is CLOSED
\* afterwards with failure_count = 0 and no last_failure_time, and the
\* client gets the backend's status.
C40_ProbeAnswered5xxCloses ==
    [][\A r \in Reqs, st \in BackendStatuses :
          (/\ requests[r].pc = "inflight"
           /\ requests[r].admitted = HALF_OPEN
           /\ CallReturns(r, st))
             => /\ circuit_breakers'[requests[r].service] =
                      [state |-> CLOSED, failure_count |-> 0,
                       last_failure_time |-> <<>>]
                /\ failures_since_success'[requests[r].service] = 0
                /\ response' /= <<>>
                /\ response'[1].status_code = st
                /\ response'[1].raised = ""]_vars

\* C40 witness: a half-open probe was answered 500 by the backend while the
\* breaker was still HALF_OPEN, and the breaker is CLOSED with no failures
C40_Witness ==
    /\ response /= <<>>
    /\ response[1].status_code = 500
    /\ response[1].content = "backend"
    /\ response[1].admitted = HALF_OPEN
    /\ response[1].recorded = HALF_OPEN
    /\ circuit_breakers[response[1].service] =
          [state |-> CLOSED, failure_count |-> 0, last_failure_time |-> <<>>]
====
